---------------------------- MODULE Spec2Model ----------------------------
(***************************************************************************)
(* Model of the orchestration core of the upsell-message pipeline          *)
(* (src/aws/lambda/orchestrator/lambda_function.py): the SQS batch handler *)
(* lambda_handler, process_message with its generate -> judge -> retry     *)
(* loop, the two inference wrappers call_bedrock_generator and             *)
(* call_bedrock_judge, and the decision-store write store_in_dynamodb.     *)
(*                                                                         *)
(* Python dicts are functions whose DOMAIN is the set of keys present, so  *)
(* d.get(k, default) and d[k] (KeyError) are modelled by what they do.     *)
(* A call that may raise returns [exc |-> <cause or "none">, val |-> ...]. *)
(***************************************************************************)
EXTENDS Integers, Sequences, FiniteSets, TLC

VARIABLES
    judgeImpl,            \* "real": call_bedrock_judge as written; "patched": replaced by a stub, as the tests do
    batch,                \* event['Records'] of the lambda_handler invocation (one customer dict per record)
    hpc,                  \* position of lambda_handler: "loop" | "returned" | "raised"
    idx,                  \* 1-based index of the record the handler loop is at
    results,              \* lambda_handler: results
    errors,               \* lambda_handler: errors
    decisionStore,        \* the DynamoDB messages table: sequence of items in write order
    pc,                   \* position of process_message
    raisedBy,             \* the call whose exception left process_message ("none" when none)
    retry_count,          \* process_message locals
    approved,
    final_email_content,
    final_judgment,
    generation_result,
    previous_feedback,
    result,               \* the dict process_message returned
    genCalls,             \* calls of call_bedrock_generator in this invocation
    judgeCalls,           \* calls of call_bedrock_judge in this invocation
    message_id,           \* the uuid4 drawn for this invocation's record
    putCalls,             \* successful put_item calls in this invocation
    putFailures,          \* put_item calls of this invocation that raised
    metricCalls,          \* cloudwatch.put_metric_data calls attempted in this invocation
    genLog,               \* arguments of each generator call of this invocation
    verdictLog,           \* per attempt of this invocation: what was judged and what came back
    lastResponse,         \* the latest judge call: the endpoint's answer as json.loads received it
    registry,             \* the Agent Registry table: set of items, keyed by (agentId, version)
    regPc,                \* per register_agent invocation: "idle" | "update" | "create"
    regRec,               \* per register_agent invocation: the agent_record it built
    regResponse,          \* per register_agent invocation: what its handler returned last
    regClock,             \* datetime.utcnow() as the registry's writers read it
    regCalls,             \* register_agent handler invocations started so far
    paramCache,           \* the orchestrator's _parameter_cache: names of the parameters held
    agentResult,          \* what the latest get_active_agent call returned or raised
    agentObs,             \* the latest get_active_agent call: what its collaborators answered
    featureStore,         \* the customer-features table: the item of the one customer, or NoItem
    enrPc,                \* per feature-enricher invocation: "idle" | "write"
    enrEvent,             \* per feature-enricher invocation: its customer_data
    enrSaw,               \* per feature-enricher invocation: how its get_item ended
                          \*   ("invalid" when the email check raised before it)
    enrRec,               \* per feature-enricher invocation: the feature_record it built
    enrResponse,          \* per feature-enricher invocation: the statusCode it returned last
    enrClock,             \* datetime.now() as the feature enricher reads it
    enrCalls,             \* feature-enricher invocations started so far
    enrClean,             \* every stored event so far carried a score and read the store
    enrSeed,              \* the services_count the first stored event supplied (0 when none)
    enrN,                 \* number of events stored so far (while enrClean)
    enrSum,               \* sum of their satisfaction scores (while enrClean)
    enrObserved,          \* the scores among the events stored so far, while each read the store
    whRequest,            \* the body of the latest webhook request
    whValidation,         \* what validate_webhook_payload returned for it
    whResponse,           \* the statusCode returned for it and the number of messages it sent
    whQueue,              \* the SQS queue: payloads sent, in order
    whCache,              \* the webhook handler's _parameter_cache: the paths it holds
    whLookup,             \* the latest get_parameter call of the webhook handler
    whHad,                \* a get_parameter call had succeeded before the latest one
    whValue,              \* the value the first successful get_parameter call returned
    whCalls               \* webhook requests handled so far

vars == <<judgeImpl, batch, hpc, idx, results, errors, decisionStore, pc, raisedBy,
          retry_count, approved, final_email_content, final_judgment,
          generation_result, previous_feedback, result, message_id, genCalls,
          judgeCalls, putCalls, putFailures, metricCalls, genLog, verdictLog,
          lastResponse, registry, regPc, regRec, regResponse, regClock, regCalls,
          paramCache, agentResult, agentObs, featureStore, enrPc, enrEvent, enrSaw,
          enrRec, enrResponse, enrClock, enrCalls, enrClean, enrSeed, enrN, enrSum,
          enrObserved,
          whRequest, whValidation, whResponse, whQueue, whCache, whLookup, whHad,
          whValue, whCalls>>

\* the state of the agent registry and of agent resolution
registryVars == <<registry, regPc, regRec, regResponse, regClock, regCalls, paramCache,
                  agentResult, agentObs>>

\* the state outside the orchestrator's batch handler
\* the state of the customer-features table and of the feature enricher
enricherVars == <<featureStore, enrPc, enrEvent, enrSaw, enrRec, enrResponse, enrClock,
                  enrCalls, enrClean, enrSeed, enrN, enrSum, enrObserved>>

\* the state of the webhook handler and of its queue
webhookVars == <<whRequest, whValidation, whResponse, whQueue, whCache, whLookup,
                 whHad, whValue, whCalls>>

otherVars == <<registryVars, enricherVars, webhookVars>>

---------------------------------------------------------------------------
(* Bounds and program constants *)

MaxBatch == 2

MAX_RETRIES == 2

---------------------------------------------------------------------------
(* Python helpers *)

Get(d, k, default) == IF k \in DOMAIN d THEN d[k] ELSE default

NoneStr == "None"

NoneDict == [none |-> TRUE]

Ok(v) == [exc |-> "none", val |-> v]

Raise(e) == [exc |-> e, val |-> NoneDict]

IsSpace(c) == c = " "

RECURSIVE LStrip(_)
LStrip(s) == IF s # <<>> /\ IsSpace(Head(s)) THEN LStrip(Tail(s)) ELSE s

RECURSIVE RStrip(_)
RStrip(s) ==
    IF s # <<>> /\ IsSpace(s[Len(s)]) THEN RStrip(SubSeq(s, 1, Len(s) - 1)) ELSE s

\* str.strip(): a text is a sequence of characters
Strip(s) == RStrip(LStrip(s))

---------------------------------------------------------------------------
(* The inputs the collaborators can supply *)

\* customer dicts of the webhook payload: email and id are optional keys
Customers ==
    { [first_name |-> "Ann", email |-> "a@b.com", id |-> "c1"],
      [first_name |-> "Ann", email |-> "a@b.com"],
      [first_name |-> "Ann", id |-> "c1"],
      [first_name |-> "Ann"] }

\* A batch of one record is explored with the full input sets; longer batches
\* with the reduced sets below, which keep one representative of each outcome.
\* The stub judge stands in only around a single process_message call.
Fine == Len(batch) = 1

\* the customers of a batch of n records
CustomersOf(n) ==
    IF n = 1 THEN Customers
    ELSE { c \in Customers : "id" \in DOMAIN c }

Batches == UNION { [1..n -> CustomersOf(n)] : n \in 1..MaxBatch }

\* raw texts the generator model can return
RawTexts ==
    IF Fine THEN { <<"a">>, <<" ", "a", " ">>, <<"b">> } ELSE { <<"a">> }

\* outcomes of bedrock_client.converse in call_bedrock_generator
GenOutcomes ==
    {[kind |-> "error", text |-> <<>>]} \cup {[kind |-> "text", text |-> t] : t \in RawTexts}

Feedbacks == IF Fine THEN {"fbA", "fbB"} ELSE {"fbA"}

Reasons == IF Fine THEN {"appropriateness", "service_validity", "brand", "tone"}
                   ELSE {"appropriateness"}

\* the JSON objects the judge model can answer with
ApprovingObjects ==
    { [approved |-> TRUE, score |-> 9, issues |-> <<>>, feedback |-> "fbOk"] }
    \cup
    IF Fine THEN { [approved |-> TRUE, score |-> 9, issues |-> <<>>, feedback |-> "fbOk",
                    reason |-> "none"] }
            ELSE {}

RejectingObjects ==
    { [approved |-> FALSE, score |-> 4, issues |-> <<"issue">>, feedback |-> f, reason |-> r] :
        f \in Feedbacks, r \in Reasons }
    \cup
    IF Fine THEN { [approved |-> FALSE, score |-> 4, issues |-> <<"issue">>, feedback |-> f] :
                     f \in Feedbacks }
            ELSE {}

\* objects that lack the keys the judge prompt asks for
PartialObjects == IF Fine THEN { [score |-> 7], [approved |-> TRUE] } ELSE {}

JudgeObjects == ApprovingObjects \cup RejectingObjects \cup PartialObjects

NoObject == [none |-> TRUE]

\* How the answer text wraps its payload: alone, in a ```json fence, in a bare
\* ``` fence, or with prose around it and no fence.
Wraps == IF Fine THEN {"bare", "json_fence", "fence", "prose"} ELSE {"bare"}

\* what bedrock_client.converse can do in call_bedrock_judge: raise (transport
\* error or timeout) or answer a text whose payload is a JSON object, a JSON
\* value that is not an object, or not JSON at all
JudgeResponses ==
    { [kind |-> "error", wrap |-> "bare", json |-> "none", obj |-> NoObject] }
    \cup { [kind |-> "text", wrap |-> w, json |-> "object", obj |-> o] :
             w \in Wraps, o \in JudgeObjects }
    \cup { [kind |-> "text", wrap |-> w, json |-> j, obj |-> NoObject] :
             w \in Wraps, j \in IF Fine THEN {"array", "invalid"} ELSE {} }

NoObserved == [kind |-> "none", json |-> "none", obj |-> NoObject, metrics |-> "none"]

\* what a stub standing in for call_bedrock_judge returns (the tests' mock_judge):
\* any verdict dict holding the keys process_message indexes directly
PatchedVerdicts == ApprovingObjects \cup RejectingObjects

---------------------------------------------------------------------------
(* call_bedrock_generator *)

\* the corrective note embedded in the prompt
FeedbackNote(rc, pf) == IF rc > 0 /\ pf # NoneStr /\ pf # "" THEN pf ELSE NoneStr

\* the body of the try block: converse, extract the text, publish the
\* GenerationTime metric, return the stripped text
GeneratorTry(outcome, cwOk, rc) ==
    IF outcome.kind = "error" THEN Raise("generator")
    ELSE IF ~cwOk THEN Raise("generator")
    ELSE Ok([email_content |-> Strip(outcome.text), retry_count |-> rc])

\* faulty variant: the except clause swallows the failure and returns an empty draft
GeneratorSwallows(outcome, cwOk, rc) ==
    LET r == GeneratorTry(outcome, cwOk, rc)
    IN  IF r.exc # "none" THEN Ok([email_content |-> <<>>, retry_count |-> rc]) ELSE r

\* the except clause logs and re-raises
CallBedrockGenerator(outcome, cwOk, rc) ==
    LET r == GeneratorTry(outcome, cwOk, rc)
    IN  IF r.exc # "none" THEN Raise(r.exc) ELSE r

---------------------------------------------------------------------------
(* call_bedrock_judge *)

\* the text handed to json.loads after the fence handling: the payload when the
\* answer is bare or fenced, the whole prose-wrapped answer otherwise
ExtractJson(resp) ==
    IF resp.wrap = "prose" THEN [json |-> "invalid", obj |-> NoObject]
    ELSE [json |-> resp.json, obj |-> resp.obj]

\* str(e) of the exception the try block raised, as it appears in the feedback
ErrorFeedback(e) ==
    CASE e = "converse"   -> "Error: converse"
      [] e = "json"       -> "Error: json"
      [] e = "attribute"  -> "Error: attribute"
      [] OTHER            -> "Error: cloudwatch"

\* the body of the try block
JudgeTry(resp, cwOk) ==
    IF resp.kind = "error" THEN Raise("converse")
    ELSE LET parsed == ExtractJson(resp)
         IN  IF parsed.json = "invalid" THEN Raise("json")
             ELSE IF parsed.json # "object" THEN Raise("attribute")
             ELSE IF ~cwOk THEN Raise("cloudwatch")
             ELSE LET judgment == parsed.obj
                  IN  Ok([approved |-> Get(judgment, "approved", FALSE),
                          score    |-> Get(judgment, "score", 0),
                          issues   |-> Get(judgment, "issues", <<>>),
                          feedback |-> Get(judgment, "feedback", "")])

\* faulty variant: the except clause lets the draft through
FailOpen(e) ==
    [approved |-> TRUE, score |-> 0, issues |-> <<"Judge evaluation failed">>,
     feedback |-> ErrorFeedback(e)]

\* the verdict of the except clause
FailClosed(e) ==
    [approved |-> FALSE, score |-> 0, issues |-> <<"Judge evaluation failed">>,
     feedback |-> ErrorFeedback(e)]

\* faulty variant: the except clause re-raises, as the generator's does
JudgeReraises(resp, cwOk) == JudgeTry(resp, cwOk)

\* the except clause returns the fail-closed verdict
CallBedrockJudge(resp, cwOk) ==
    LET r == JudgeTry(resp, cwOk)
    IN  IF r.exc # "none" THEN Ok(FailClosed(r.exc)) ELSE r

---------------------------------------------------------------------------
(* store_in_dynamodb *)

\* faulty variant: the except clause logs and returns
StoreSwallows(item, putOk) == Ok(item)

\* convert_floats leaves the item's strings, integers and booleans as they are;
\* put_item either stores the item or raises, and the except clause re-raises
StoreInDynamodb(item, putOk) == IF putOk THEN Ok(item) ELSE Raise("store")

\* faulty variant: the key is derived from the event, the same on redelivery
MessageIdOfEvent(store) == 1

\* str(uuid.uuid4()): an id that no stored item carries
Uuid4(store) ==
    CHOOSE m \in 1..(Len(store) + 1) :
        \A i \in 1..Len(store) : store[i]["messageId"] # m

\* faulty variant: the item is written once more on top of the write
PutMessageTwice(store, item) == Append(Append(store, item), item)

\* table.put_item on the messages table, whose key is messageId: the item
\* replaces the one stored under its key, or is added
PutMessage(store, item) ==
    IF \E i \in 1..Len(store) : store[i]["messageId"] = item["messageId"]
      THEN [i \in 1..Len(store) |->
              IF store[i]["messageId"] = item["messageId"] THEN item ELSE store[i]]
      ELSE Append(store, item)

---------------------------------------------------------------------------
(* process_message: the retry loop's decisions *)

\* faulty variant: one attempt fewer
LoopStopsEarly(rc, appr) == rc < MAX_RETRIES /\ ~appr

\* faulty variant: the loop condition forgets the approval
LoopIgnoresApproval(rc, appr) == rc <= MAX_RETRIES

\* faulty variant: one attempt more
LoopRunsOver(rc, appr) == rc <= MAX_RETRIES + 1 /\ ~appr

\* while retry_count <= MAX_RETRIES and not approved
LoopContinues(rc, appr) == rc <= MAX_RETRIES /\ ~appr

\* faulty variant: the feedback of the first rejection is carried to every retry
KeepsFirstFeedback(previous, judgment_result) ==
    IF previous = NoneStr THEN judgment_result["feedback"] ELSE previous

\* previous_feedback = judgment_result['feedback']
CarriedFeedback(previous, judgment_result) == judgment_result["feedback"]

\* faulty variant: only an approved draft replaces the final text
FinalEmailIfApproved(previous, judgment_result, email_content) ==
    IF judgment_result["approved"] THEN email_content ELSE previous

\* final_email_content = generation_result['email_content'], in each of the
\* three branches on the verdict
FinalEmailContent(previous, judgment_result, email_content) == email_content

\* faulty variant: a verdict without a reason counts as an appropriateness rejection
ReasonDefaultsFinal(judgment_result) == Get(judgment_result, "reason", "appropriateness")

\* rejection_reason = judgment_result.get('reason', 'brand')
RejectionReason(judgment_result) == Get(judgment_result, "reason", "brand")

\* faulty variant: the early exit compares against the wrong tag
SkipsRetriesNever(rejection_reason) == FALSE

\* if rejection_reason == 'appropriateness': ... break
SkipsRetries(rejection_reason) == rejection_reason = "appropriateness"

\* faulty variant: the status follows the last verdict's score
StatusByScore(appr, judgment) == IF Get(judgment, "score", 0) > 0 THEN "approved" ELSE "rejected"

\* 'status': 'approved' if approved else 'rejected'
StatusOf(appr, judgment) == IF appr THEN "approved" ELSE "rejected"

\* customer.get('email') or customer.get('id') or 'unknown@example.com'
CustomerEmailOf(customer) ==
    IF "email" \in DOMAIN customer THEN customer["email"]
    ELSE IF "id" \in DOMAIN customer THEN customer["id"]
    ELSE "unknown@example.com"

\* the DynamoDB record; message_id is a fresh uuid4, modelled by the write's
\* position in the table
DynamodbItem(customer, mid) ==
    [ messageId       |-> mid,
      customerEmail   |-> CustomerEmailOf(customer),
      emailContent    |-> final_email_content,
      llmJudgeScore   |-> Get(final_judgment, "score", 0),
      judgeApproved   |-> Get(final_judgment, "approved", FALSE),
      judgeFeedback   |-> Get(final_judgment, "feedback", ""),
      judgeIssues     |-> Get(final_judgment, "issues", <<>>),
      rejectionReason |-> Get(final_judgment, "reason", "N/A"),
      status          |-> StatusOf(approved, final_judgment),
      retryCount      |-> retry_count ]

---------------------------------------------------------------------------
(* The Agent Registry: register_agent's record, the table's put and get, *)
(* and the parameter cache and agent resolution of the orchestrator      *)

MaxRegs == 3

\* concurrent invocations of the register_agent Lambda
RegWorkers == {"r1", "r2"}

\* event bodies of register_agent; the last one lacks a required field
AgentConfigs ==
    { [agentId |-> "upsell-generator", version |-> "1.0", bedrockModel |-> "m1",
       status |-> "production", promptTemplate |-> "tpl", config |-> "cfg"],
      [agentId |-> "upsell-generator", version |-> "1.0", bedrockModel |-> "m2"],
      [agentId |-> "upsell-generator", version |-> "2.0", bedrockModel |-> "m2",
       status |-> "production"],
      [agentId |-> "judge", version |-> "1.0", bedrockModel |-> "m1",
       status |-> "production"],
      [agentId |-> "upsell-generator", version |-> "2.0", status |-> "retired",
       bedrockModel |-> "m1"],
      [agentId |-> "upsell-generator", version |-> "1.0"] }

\* validate_agent_config, for bodies whose version is well formed
ValidateAgentConfig(agent_config) ==
    IF ~({"agentId", "version", "bedrockModel"} \subseteq DOMAIN agent_config)
      THEN FALSE
      ELSE IF "status" \in DOMAIN agent_config
             THEN agent_config["status"] \in {"draft", "testing", "production"}
             ELSE TRUE

OptionalFields == {"promptTemplate", "config"}

\* the agent_record register_agent prepares at time now
AgentRecord(agent_config, now) ==
    [agentId      |-> agent_config["agentId"],
     version      |-> agent_config["version"],
     bedrockModel |-> agent_config["bedrockModel"],
     status       |-> Get(agent_config, "status", "draft"),
     createdAt    |-> now,
     updatedAt    |-> now]
    @@ [k \in (DOMAIN agent_config \cap OptionalFields) |-> agent_config[k]]

SameKey(a, b) == a["agentId"] = b["agentId"] /\ a["version"] = b["version"]

\* faulty variant: a put that adds the item next to the one under its key
PutItemAppends(table, item) == table \cup {item}

\* table.put_item: the item replaces whatever the table holds under its key
PutItem(table, item) == {r \in table : ~SameKey(r, item)} \cup {item}

\* table.get_item(Key={agentId, version}): 'Item' is in the answer or not
HasItem(table, item) == \E r \in table : SameKey(r, item)

NoAgentRecord == [none |-> TRUE]

NoResponse == [statusCode |-> 0, action |-> "none"]

TableParam == "/referral-system/agent-registry-table-name"

LegacyParam == "/referral-system/bedrock-model-id"

\* the value SSM holds under a parameter name
ParamValue(name) == IF name = LegacyParam THEN "legacy-model" ELSE "agent-registry"

\* get_parameter: a cached name is answered from the cache; otherwise SSM is
\* asked, and its answer is cached or its failure raised
GetParameter(name, cache, ssmOk) ==
    IF name \in cache
      THEN [exc |-> "none", val |-> ParamValue(name), cache |-> cache]
      ELSE IF ssmOk
             THEN [exc |-> "none", val |-> ParamValue(name), cache |-> cache \cup {name}]
             ELSE [exc |-> "ssm", val |-> NoneStr, cache |-> cache]

EmptyConfig == "{}"

\* how the StatusIndex orders the items of one status: by creation time
Newest(items) == CHOOSE r \in items : \A q \in items : q["createdAt"] <= r["createdAt"]

\* registry_table.query on StatusIndex for status 'production', descending,
\* Limit=1 with FilterExpression agentId = :agent_id: the limit bounds the
\* items evaluated, the filter is applied to those
QueryProduction(table, agent_id) ==
    LET production == {r \in table : r["status"] = "production"}
        evaluated == IF production = {} THEN {} ELSE {Newest(production)}
        matching == {r \in evaluated : r["agentId"] = agent_id}
    IN  IF matching = {} THEN <<>> ELSE <<Newest(matching)>>

AgentOf(agent) ==
    [model_id       |-> agent["bedrockModel"],
     version        |-> agent["version"],
     promptTemplate |-> Get(agent, "promptTemplate", NoneStr),
     config         |-> Get(agent, "config", EmptyConfig)]

LegacyConfig(model_id) ==
    [model_id |-> model_id, version |-> "legacy", promptTemplate |-> NoneStr,
     config |-> EmptyConfig]

\* the legacy lookup both fallbacks make; lookups counts the legacy lookups
\* made so far in this call
LegacyFallback(cache, ssmOk, lookups) ==
    LET p == GetParameter(LegacyParam, cache, ssmOk)
    IN  [exc     |-> p.exc,
         val     |-> IF p.exc = "none" THEN LegacyConfig(p.val) ELSE NoneDict,
         cache   |-> p.cache,
         lookups |-> lookups]

\* the try body of get_active_agent; answers.legacy[n] is what SSM answers
\* to the n-th legacy lookup of the call
GetActiveAgentTry(agent_id, table, cache, answers) ==
    LET t == GetParameter(TableParam, cache, answers.table)
    IN  IF t.exc # "none"
          THEN [exc |-> t.exc, val |-> NoneDict, cache |-> t.cache, lookups |-> 0]
          ELSE IF ~answers.query
                 THEN [exc |-> "query", val |-> NoneDict, cache |-> t.cache, lookups |-> 0]
                 ELSE LET items == QueryProduction(table, agent_id)
                      IN  IF items # <<>>
                            THEN [exc |-> "none", val |-> AgentOf(items[1]),
                                  cache |-> t.cache, lookups |-> 0]
                            ELSE LegacyFallback(t.cache, answers.legacy[1], 1)

\* faulty variant: no fallback when the try body raises
GetActiveAgentReraises(agent_id, table, cache, answers) ==
    GetActiveAgentTry(agent_id, table, cache, answers)

\* get_active_agent: whatever the try body raises leads to the legacy lookup
GetActiveAgent(agent_id, table, cache, answers) ==
    LET body == GetActiveAgentTry(agent_id, table, cache, answers)
    IN  IF body.exc = "none"
          THEN body
          ELSE LegacyFallback(body.cache, answers.legacy[body.lookups + 1],
                              body.lookups + 1)

\* what SSM and the table answer during one get_active_agent call; an answer
\* that no path asks for (the query after a failed table-name lookup, a
\* second legacy lookup after a first that succeeded) is fixed
AgentAnswers ==
    {a \in [table : BOOLEAN, query : BOOLEAN, legacy : BOOLEAN \X BOOLEAN] :
        /\ ~a.table => a.query
        /\ a.legacy[1] => a.legacy[2]}

NoAgentObs ==
    [called |-> FALSE, agent_id |-> NoneStr, cached |-> {},
     answers |-> [table |-> TRUE, query |-> TRUE, legacy |-> <<TRUE, TRUE>>],
     production |-> {}]

\* no register_agent invocation is running and no agent was resolved yet
RegistryAtRest ==
    /\ registry = {}
    /\ regPc = [w \in RegWorkers |-> "idle"]
    /\ regRec = [w \in RegWorkers |-> NoAgentRecord]
    /\ regResponse = [w \in RegWorkers |-> NoResponse]
    /\ regClock = 0
    /\ regCalls = 0
    /\ paramCache = {}
    /\ agentResult = Raise("none")
    /\ agentObs = NoAgentObs

---------------------------------------------------------------------------
(* The feature enricher: calculate_satisfaction_avg, calculate_service_count *)
(* and the record enrich_customer_features builds. Averages are kept in      *)
(* hundredths, the precision round(x, 2) leaves.                             *)

MaxEvents == 7

MaxRaces == 3

\* concurrent invocations of the feature-enricher Lambda for one customer
EnrWorkers == {"e1", "e2"}

NoItem == [none |-> TRUE]

NoEvent == [none |-> TRUE]

Scores == {1, 2}

ServicesCounts == {0, 3}

\* customer_data with the keys the enricher reads, each present or absent
\* (an absent one is given as the empty tuple)
EventOf(email, score, count, tier) ==
    [k \in (IF email # <<>> THEN {"email"} ELSE {})
           \cup (IF score # <<>> THEN {"satisfaction_score"} ELSE {})
           \cup (IF count # <<>> THEN {"services_count"} ELSE {})
           \cup (IF tier # <<>> THEN {"customer_lifetime_value"} ELSE {}) |->
        IF k = "email" THEN email[1]
        ELSE IF k = "satisfaction_score" THEN score[1]
        ELSE IF k = "services_count" THEN count[1] ELSE tier[1]]

\* a key a dict does not hold, and Python's None
Absent == "absent"

Null == "null"

AddressKeys == {"city", "state", "zip"}

PropertyInfoKeys == {"type", "square_feet", "year_built", "pest_issues"}

\* customer.address dicts: with every field, with the city only, and empty
Addresses ==
    { [city |-> "Provo", state |-> "UT", zip |-> "84601"],
      [city |-> "Provo", state |-> Absent, zip |-> Absent],
      [city |-> Absent, state |-> Absent, zip |-> Absent] }

\* property_info dicts: with every field, and with the type only
PropertyInfos ==
    { [type |-> "house", square_feet |-> "1800", year_built |-> "1995",
       pest_issues |-> "ants"],
      [type |-> "house", square_feet |-> Absent, year_built |-> Absent,
       pest_issues |-> Absent] }

\* a scored event of the customer with an address and a property_info; the
\* empty tuple stands for a key the event does not carry
PropertyEvent(address, property_info) ==
    [k \in {"email", "satisfaction_score"}
           \cup (IF address # <<>> THEN {"address"} ELSE {})
           \cup (IF property_info # <<>> THEN {"property_info"} ELSE {}) |->
        IF k = "email" THEN "a@b.com"
        ELSE IF k = "satisfaction_score" THEN 1
        ELSE IF k = "address" THEN address[1] ELSE property_info[1]]

\* events that describe the property: each address alone, each property_info
\* alone, and a full address with a partial property_info
PropertyEvents ==
    { PropertyEvent(<<a>>, <<>>) : a \in Addresses }
    \cup { PropertyEvent(<<>>, <<p>>) : p \in PropertyInfos }
    \cup { PropertyEvent(<<[city |-> "Provo", state |-> "UT", zip |-> "84601"]>>,
                         <<[type |-> "house", square_feet |-> Absent,
                            year_built |-> Absent, pest_issues |-> Absent]>>) }

\* the events that leave the tier to be computed, two that supply one, one
\* without email and id, and one with the customer's id but no email
EnricherEvents ==
    { EventOf(<<"a@b.com">>, s, c, <<>>) :
        s \in {<<>>} \cup {<<x>> : x \in Scores},
        c \in {<<>>} \cup {<<x>> : x \in ServicesCounts} }
    \cup { EventOf(<<"a@b.com">>, <<>>, <<>>, <<"HIGH">>),
           EventOf(<<"a@b.com">>, <<1>>, <<>>, <<"Premium">>) }
    \cup { EventOf(<<>>, <<1>>, <<>>, <<>>),
           [id |-> "c1", satisfaction_score |-> 1] }

DefaultSatisfaction == 350

\* round(num / d, 2) on hundredths: the nearest hundredth; at an exact tie
\* the binary float decides, so either neighbour
Round2(num, d) ==
    LET q == num \div d
        r == num % d
    IN  IF 2 * r < d THEN {q}
        ELSE IF 2 * r > d THEN {q + 1}
        ELSE {q, q + 1}

\* faulty variant: the new score weighs as much as the whole history
AvgUnweighted(customer_data, existing_features) ==
    IF "satisfaction_score" \notin DOMAIN customer_data
      THEN IF existing_features # NoItem
             THEN {existing_features["satisfaction_avg"]}
             ELSE {DefaultSatisfaction}
      ELSE IF existing_features # NoItem
             THEN Round2(existing_features["satisfaction_avg"]
                           + 100 * customer_data["satisfaction_score"], 2)
             ELSE {100 * customer_data["satisfaction_score"]}

\* calculate_satisfaction_avg: the values it can return, in hundredths
CalculateSatisfactionAvg(customer_data, existing_features) ==
    IF "satisfaction_score" \notin DOMAIN customer_data
      THEN IF existing_features # NoItem
             THEN {existing_features["satisfaction_avg"]}
             ELSE {DefaultSatisfaction}
      ELSE IF existing_features # NoItem
             THEN LET existing_avg == existing_features["satisfaction_avg"]
                      existing_count == existing_features["service_count"]
                      new_count == existing_count + 1
                  IN  Round2(existing_avg * existing_count
                               + 100 * customer_data["satisfaction_score"], new_count)
             ELSE {100 * customer_data["satisfaction_score"]}

\* faulty variant: the payload's services_count is never read
CountIgnoresPayload(customer_data, existing_features) ==
    IF existing_features # NoItem
      THEN existing_features["service_count"] + 1
      ELSE 1

\* calculate_service_count
CalculateServiceCount(customer_data, existing_features) ==
    IF existing_features # NoItem
      THEN existing_features["service_count"] + 1
      ELSE IF Get(customer_data, "services_count", 0) # 0
             THEN customer_data["services_count"]
             ELSE 1

\* str(x).lower() on the tier strings of the events
Lower(x) ==
    IF x = "HIGH" THEN "high"
    ELSE IF x = "Premium" THEN "premium"
    ELSE x

\* faulty variant: the thresholds are exclusive
ClassifyStrict(service_count, satisfaction) ==
    IF service_count > 6 /\ satisfaction > 400 THEN "high"
    ELSE IF service_count > 3 \/ satisfaction > 350 THEN "medium"
    ELSE "low"

\* the thresholds of get_lifetime_value, satisfaction in hundredths
Classify(service_count, satisfaction) ==
    IF service_count >= 6 /\ satisfaction >= 400 THEN "high"
    ELSE IF service_count >= 3 \/ satisfaction >= 350 THEN "medium"
    ELSE "low"

\* get_lifetime_value; satisfaction_avg is what calculate_satisfaction_avg
\* returns for these arguments
GetLifetimeValue(customer_data, existing_features, satisfaction_avg) ==
    IF Get(customer_data, "customer_lifetime_value", "") # ""
      THEN Lower(customer_data["customer_lifetime_value"])
      ELSE Classify(CalculateServiceCount(customer_data, existing_features),
                    satisfaction_avg)

\* a dict with none of these keys
NoKeys(keys) == [k \in keys |-> Absent]

\* bool(d): a dict is truthy when it holds a key
NonEmpty(d) == \E k \in DOMAIN d : d[k] # Absent

\* d.get(k, default) as extract_property_features stores it
StoredField(d, k, default) == IF d[k] = Absent THEN default ELSE d[k]

PropertyKeys ==
    {"city", "state", "zip", "property_type", "square_feet", "year_built", "pest_issues"}

\* extract_property_features: per key of the result, its value or Absent
ExtractPropertyFeatures(customer_data) ==
    LET address == Get(customer_data, "address", NoKeys(AddressKeys))
        property_info == Get(customer_data, "property_info", NoKeys(PropertyInfoKeys))
    IN  [k \in PropertyKeys |->
            IF k \in AddressKeys
              THEN IF NonEmpty(address) THEN StoredField(address, k, Null) ELSE Absent
              ELSE IF ~NonEmpty(property_info) THEN Absent
              ELSE IF k = "property_type" THEN StoredField(property_info, "type", Null)
              ELSE IF k = "pest_issues" THEN StoredField(property_info, k, "[]")
              ELSE StoredField(property_info, k, Null)]

\* the feature_record of enrich_customer_features, for the average drawn and
\* the time read; both timestamps of one enrichment fall in the same tick
FeatureRecord(customer_data, existing_features, satisfaction_avg, now) ==
    [customerEmail    |-> customer_data["email"],
     satisfaction_avg |-> satisfaction_avg,
     service_count    |-> CalculateServiceCount(customer_data, existing_features),
     lifetime_value   |-> GetLifetimeValue(customer_data, existing_features,
                                           satisfaction_avg),
     property_features |-> ExtractPropertyFeatures(customer_data),
     last_updated     |-> now,
     first_seen       |-> IF existing_features = NoItem
                            THEN now
                            ELSE Get(existing_features, "first_seen", now)]

\* no event stored yet: no score observed, no seed, every read so far succeeded
NoScores == [n |-> 0, sum |-> 0, seeded |-> FALSE, ok |-> TRUE]

\* the tally does not apply: the history of the record is not known
TallyStopped == [n |-> 0, sum |-> 0, seeded |-> FALSE, ok |-> FALSE]

\* no feature-enricher invocation is running and the customer has no record
EnricherAtRest ==
    /\ featureStore = NoItem
    /\ enrPc = [w \in EnrWorkers |-> "idle"]
    /\ enrEvent = [w \in EnrWorkers |-> NoEvent]
    /\ enrSaw = [w \in EnrWorkers |-> "none"]
    /\ enrRec = [w \in EnrWorkers |-> NoItem]
    /\ enrResponse = [w \in EnrWorkers |-> 0]
    /\ enrClock = 0
    /\ enrCalls = 0
    /\ enrClean = TRUE
    /\ enrSeed = 0
    /\ enrN = 0
    /\ enrSum = 0
    /\ enrObserved = NoScores

---------------------------------------------------------------------------
(* The webhook handler: get_parameter with its environment-specific path, *)
(* validate_webhook_payload and the bodies of the requests                *)

MaxRequests == 3

QueueParam == "/referral-system/sqs-queue-url"

\* parameter names asked for: the handler's, and one outside /referral-system/
ParamNames == {QueueParam, "/test/param"}

\* parameter_name.replace('/referral-system/', '/referral-system/dev/') for
\* the names that start with '/referral-system/', the name itself otherwise
EnvSpecificName(parameter_name) ==
    IF parameter_name = QueueParam
      THEN "/referral-system/dev/sqs-queue-url"
      ELSE parameter_name

\* the value SSM holds under a path
PathValue(path) ==
    IF path = "/referral-system/dev/sqs-queue-url" THEN "queue-dev"
    ELSE IF path = QueueParam THEN "queue-base"
    ELSE "test-value"

\* what SSM answers to the first and to the second request of one call
SsmAnswers == {"found", "notfound", "error"} \X {"found", "notfound", "error"}

\* one round of get_parameter's loop for param_name, after `requests` SSM
\* requests of this call: answered from the cache, or by SSM
LookupRound(param_name, cache, answers, requests) ==
    IF param_name \in cache
      THEN [done |-> TRUE, exc |-> "none", val |-> PathValue(param_name),
            cache |-> cache, requests |-> requests]
      ELSE LET answer == answers[requests + 1]
           IN  IF answer = "found"
                 THEN [done |-> TRUE, exc |-> "none", val |-> PathValue(param_name),
                       cache |-> cache \cup {param_name}, requests |-> requests + 1]
                 ELSE IF answer = "error"
                        THEN [done |-> TRUE, exc |-> "ssm", val |-> NoneStr,
                              cache |-> cache, requests |-> requests + 1]
                        ELSE [done |-> FALSE, exc |-> "none", val |-> NoneStr,
                              cache |-> cache, requests |-> requests + 1]

\* the webhook handler's get_parameter: the environment-specific path first,
\* then the name as given; ValueError when neither is found
WebhookGetParameter(parameter_name, cache, answers) ==
    LET first == LookupRound(EnvSpecificName(parameter_name), cache, answers, 0)
    IN  IF first.done
          THEN first
          ELSE LET second == LookupRound(parameter_name, first.cache, answers,
                                         first.requests)
               IN  IF second.done
                     THEN second
                     ELSE [second EXCEPT !.done = TRUE, !.exc = "notfound"]

NoPayload == [none |-> TRUE]

ValidPayload ==
    [event_type |-> "service_completed",
     customer |-> [id |-> "CUST-12345", email |-> "john.smith@example.com"],
     referral_eligible |-> TRUE]

\* the valid payload and the five defective ones of the tests
Payloads ==
    { ValidPayload,
      [customer |-> [id |-> "CUST-12345", email |-> "john.smith@example.com"],
       referral_eligible |-> TRUE],
      [event_type |-> "service_completed", customer |-> [id |-> "CUST-12345"],
       referral_eligible |-> TRUE],
      [event_type |-> "service_completed",
       customer |-> [id |-> "CUST-12345", email |-> "invalid-email"],
       referral_eligible |-> TRUE],
      [event_type |-> "service_completed",
       customer |-> [id |-> "CUST-12345", email |-> "john.smith@example.com"],
       referral_eligible |-> FALSE],
      [event_type |-> "test"] }

\* event['body']: text that is not JSON, JSON that is no object, the empty
\* object, or an object
WebhookBodies ==
    { [kind |-> k, payload |-> NoPayload] : k \in {"notjson", "nondict", "empty"} }
    \cup { [kind |-> "dict", payload |-> p] : p \in Payloads }

\* validate_webhook_payload on a parsed body
ValidateWebhookPayload(body) ==
    IF body.kind \in {"empty", "nondict"}
      THEN <<FALSE, "Payload must be a non-empty JSON object">>
      ELSE <<TRUE, "">>

NotValidated == <<FALSE, "not validated">>

NoLookup == [name |-> NoneStr, exc |-> "none", val |-> NoneStr, requests |-> 0]

\* no webhook request was handled yet
WebhookAtRest ==
    /\ whRequest = [kind |-> "none", payload |-> NoPayload]
    /\ whValidation = NotValidated
    /\ whResponse = [statusCode |-> 0, sent |-> 0]
    /\ whQueue = <<>>
    /\ whCache = {}
    /\ whLookup = NoLookup
    /\ whHad = FALSE
    /\ whValue = [n \in ParamNames |-> NoneStr]
    /\ whCalls = 0

---------------------------------------------------------------------------
(* Initial state: a handler invocation about to walk its batch *)

NoneText == <<"None">>

NoResult == [none |-> TRUE]

\* process_message has not been called yet for any record of the batch
OrchestratorStart ==
    /\ judgeImpl \in {"real", "patched"}
    /\ batch \in Batches
    /\ judgeImpl = "patched" => Len(batch) = 1
    /\ hpc = "loop"
    /\ idx = 1
    /\ results = <<>>
    /\ errors = <<>>
    /\ decisionStore = <<>>
    /\ pc = "idle"
    /\ raisedBy = "none"
    /\ retry_count = 0
    /\ approved = FALSE
    /\ final_email_content = NoneText
    /\ final_judgment = NoneDict
    /\ generation_result = NoneDict
    /\ previous_feedback = NoneStr
    /\ result = NoResult
    /\ genCalls = 0
    /\ judgeCalls = 0
    /\ message_id = 0
    /\ putCalls = 0
    /\ putFailures = 0
    /\ metricCalls = 0
    /\ genLog = <<>>
    /\ verdictLog = <<>>
    /\ lastResponse = NoObserved

Init ==
    /\ OrchestratorStart
    /\ RegistryAtRest
    /\ EnricherAtRest
    /\ WebhookAtRest

handlerVars == <<judgeImpl, batch, hpc, idx, results, errors>>

\* process_message's locals and the observations of its invocation
localVars == <<raisedBy, retry_count, approved, final_email_content, final_judgment,
               generation_result, previous_feedback, result, message_id, genCalls,
               judgeCalls, putCalls, putFailures, metricCalls, genLog, verdictLog,
               lastResponse>>

---------------------------------------------------------------------------
(* process_message *)

\* lambda_handler's loop calls process_message for the next record
ProcessMessageCall ==
    /\ UNCHANGED otherVars
    /\ hpc = "loop" /\ pc = "idle" /\ idx <= Len(batch)
    /\ pc' = "config"
    /\ UNCHANGED <<handlerVars, decisionStore, localVars>>

\* parameters, active agent, brand guidelines, customer features, then the
\* loop's locals; a failing parameter, agent or guidelines lookup raises
Configure ==
    /\ UNCHANGED otherVars
    /\ pc = "config"
    /\ \E ok \in BOOLEAN :
         IF ok THEN /\ pc' = IF LoopContinues(0, FALSE) THEN "generate" ELSE "record"
                    /\ raisedBy' = raisedBy
               ELSE /\ pc' = "raised"
                    /\ raisedBy' = "config"
    /\ UNCHANGED <<handlerVars, decisionStore, retry_count, approved, final_email_content,
                   final_judgment, generation_result, previous_feedback, result, message_id,
                   genCalls, judgeCalls, putCalls, putFailures, metricCalls, genLog,
                   verdictLog, lastResponse>>

\* one pass of the loop up to the generator's return
Generate ==
    /\ UNCHANGED otherVars
    /\ pc = "generate"
    /\ \E outcome \in GenOutcomes, cwOk \in BOOLEAN :
         LET r == CallBedrockGenerator(outcome, cwOk, retry_count)
         IN  /\ genCalls' = genCalls + 1
             /\ metricCalls' = metricCalls + (IF outcome.kind = "text" THEN 1 ELSE 0)
             /\ genLog' = Append(genLog, [retry_count |-> retry_count,
                                          previous_feedback |-> previous_feedback,
                                          note |-> FeedbackNote(retry_count, previous_feedback),
                                          failed |-> GeneratorTry(outcome, cwOk, retry_count).exc # "none"])
             /\ IF r.exc # "none"
                  THEN /\ pc' = "raised"
                       /\ raisedBy' = r.exc
                       /\ generation_result' = generation_result
                  ELSE /\ pc' = "judge"
                       /\ raisedBy' = raisedBy
                       /\ generation_result' = r.val
    /\ lastResponse' = NoObserved
    /\ UNCHANGED <<handlerVars, decisionStore, retry_count, approved, final_email_content,
                   final_judgment, previous_feedback, result, message_id, judgeCalls,
                   putCalls, putFailures, verdictLog>>

\* the rest of the pass: the judge call and the branch on its verdict
JudgeWith(r, resp, judged, failed) ==
    /\ judgeCalls' = judgeCalls + 1
    /\ lastResponse' = resp
    /\ IF r.exc # "none"
         THEN /\ pc' = "raised"
              /\ raisedBy' = "judge"
              /\ UNCHANGED <<retry_count, approved, final_email_content, final_judgment,
                             previous_feedback, verdictLog>>
         ELSE LET judgment_result == r.val
                  rejection_reason == RejectionReason(judgment_result)
              IN  /\ verdictLog' = Append(verdictLog,
                                     [email    |-> generation_result.email_content,
                                      approved |-> judgment_result["approved"],
                                      reason   |-> Get(judgment_result, "reason", "absent"),
                                      feedback |-> judgment_result["feedback"],
                                      verdict  |-> judgment_result,
                                      judged   |-> judged,
                                      failed   |-> failed])
                  /\ final_judgment' = judgment_result
                  /\ final_email_content' = FinalEmailContent(final_email_content, judgment_result,
                                                              generation_result.email_content)
                  /\ raisedBy' = raisedBy
                  /\ IF judgment_result["approved"]
                       THEN /\ approved' = TRUE
                            /\ UNCHANGED <<retry_count, previous_feedback>>
                            /\ pc' = IF LoopContinues(retry_count, TRUE) THEN "generate" ELSE "record"
                       ELSE /\ approved' = approved
                            /\ IF SkipsRetries(rejection_reason)
                                 THEN /\ UNCHANGED <<retry_count, previous_feedback>>
                                      /\ pc' = "record"
                                 ELSE /\ previous_feedback' = CarriedFeedback(previous_feedback,
                                                                            judgment_result)
                                      /\ retry_count' = retry_count + 1
                                      /\ pc' = IF LoopContinues(retry_count + 1, approved)
                                                 THEN "generate" ELSE "record"

\* whether the judge model itself approved, in an answer that parsed
ModelApproved(resp) ==
    LET parsed == ExtractJson(resp)
    IN  /\ resp.kind = "text"
        /\ parsed.json = "object"
        /\ Get(parsed.obj, "approved", FALSE)

\* the answer as json.loads received it, with what the metrics sink did in that call
Observed(resp, cwOk) ==
    [kind |-> resp.kind,
     json |-> IF resp.kind = "text" THEN ExtractJson(resp).json ELSE "none",
     obj  |-> IF resp.kind = "text" THEN ExtractJson(resp).obj ELSE NoObject,
     metrics |-> IF JudgeTry(resp, TRUE).exc # "none" THEN "none"
                 ELSE IF cwOk THEN "ok" ELSE "failed"]

Judge ==
    /\ UNCHANGED otherVars
    /\ pc = "judge"
    /\ IF judgeImpl = "real"
         THEN \E resp \in JudgeResponses, cwOk \in BOOLEAN :
                /\ JudgeWith(CallBedrockJudge(resp, cwOk), Observed(resp, cwOk),
                             ModelApproved(resp), JudgeTry(resp, cwOk).exc # "none")
                /\ metricCalls' = metricCalls
                                    + (IF JudgeTry(resp, TRUE).exc = "none" THEN 1 ELSE 0)
         ELSE \E v \in PatchedVerdicts :
                /\ JudgeWith(Ok(v), NoObserved, v["approved"], FALSE)
                /\ metricCalls' = metricCalls
    /\ UNCHANGED <<handlerVars, decisionStore, generation_result, result, message_id,
                   genCalls, putCalls, putFailures, genLog>>

\* after the loop: build the item under a fresh messageId and write it
Record ==
    /\ UNCHANGED otherVars
    /\ pc = "record"
    /\ message_id' = Uuid4(decisionStore)
    /\ \E putOk \in BOOLEAN :
         LET item == DynamodbItem(batch[idx], message_id')
             w == StoreInDynamodb(item, putOk)
         IN  /\ decisionStore' = IF putOk THEN PutMessage(decisionStore, item)
                                          ELSE decisionStore
             /\ putCalls' = putCalls + (IF putOk THEN 1 ELSE 0)
             /\ putFailures' = putFailures + (IF putOk THEN 0 ELSE 1)
             /\ IF w.exc # "none"
                  THEN pc' = "raised" /\ raisedBy' = w.exc
                  ELSE pc' = "publish" /\ raisedBy' = raisedBy
    /\ UNCHANGED <<handlerVars, retry_count, approved, final_email_content, final_judgment,
                   generation_result, previous_feedback, result, genCalls, judgeCalls,
                   metricCalls, genLog, verdictLog, lastResponse>>

\* publish MessagesGenerated and RetryRate, then build the return value,
\* which indexes customer['email']
PublishAndReturn ==
    /\ UNCHANGED otherVars
    /\ pc = "publish"
    /\ \E cwOk \in BOOLEAN :
         /\ metricCalls' = metricCalls + 1
         /\ IF ~cwOk
              THEN pc' = "raised" /\ raisedBy' = "cloudwatch" /\ result' = result
              ELSE IF "email" \notin DOMAIN batch[idx]
                     THEN pc' = "raised" /\ raisedBy' = "keyerror" /\ result' = result
                     ELSE /\ pc' = "done"
                          /\ raisedBy' = raisedBy
                          /\ result' = [message_id     |-> message_id,
                                        customer_email |-> batch[idx]["email"],
                                        approved       |-> approved,
                                        retry_count    |-> retry_count]
    /\ UNCHANGED <<handlerVars, decisionStore, retry_count, approved, final_email_content,
                   final_judgment, generation_result, previous_feedback, message_id,
                   genCalls, judgeCalls, putCalls, putFailures, genLog, verdictLog,
                   lastResponse>>

---------------------------------------------------------------------------
(* lambda_handler *)

\* process_message returned or raised: append to results or to errors; the
\* invocation's locals and observations are gone
Collect ==
    /\ UNCHANGED otherVars
    /\ hpc = "loop" /\ pc \in {"done", "raised"}
    /\ IF pc = "done"
         THEN results' = Append(results, result) /\ errors' = errors
         ELSE errors' = Append(errors, [record |-> idx, error |-> raisedBy]) /\ results' = results
    /\ idx' = idx + 1
    /\ pc' = "idle"
    /\ raisedBy' = "none"
    /\ retry_count' = 0
    /\ approved' = FALSE
    /\ final_email_content' = NoneText
    /\ final_judgment' = NoneDict
    /\ generation_result' = NoneDict
    /\ previous_feedback' = NoneStr
    /\ result' = NoResult
    /\ message_id' = 0
    /\ genCalls' = 0 /\ judgeCalls' = 0 /\ putCalls' = 0 /\ putFailures' = 0
    /\ metricCalls' = 0
    /\ genLog' = <<>> /\ verdictLog' = <<>>
    /\ lastResponse' = NoObserved
    /\ UNCHANGED <<judgeImpl, batch, hpc, decisionStore>>

\* faulty variant: the handler returns 200 whatever the records did
ReturnsDespiteErrors(errs) == "returned"

\* if errors: raise Exception(...); else return statusCode 200
HandlerOutcome(errs) == IF errs # <<>> THEN "raised" ELSE "returned"

\* after the loop: raise when any record failed, else return statusCode 200
Finish ==
    /\ UNCHANGED otherVars
    /\ hpc = "loop" /\ pc = "idle" /\ idx > Len(batch)
    /\ hpc' = HandlerOutcome(errors)
    /\ UNCHANGED <<judgeImpl, batch, idx, results, errors, decisionStore, pc, raisedBy,
                   retry_count, approved, final_email_content, final_judgment,
                   generation_result, previous_feedback, result, message_id, genCalls,
                   judgeCalls, putCalls, putFailures, metricCalls, genLog, verdictLog,
                   lastResponse>>

Next ==
    \/ ProcessMessageCall
    \/ Configure
    \/ Generate
    \/ Judge
    \/ Record
    \/ PublishAndReturn
    \/ Collect
    \/ Finish

Spec == Init /\ [][Next]_vars

---------------------------------------------------------------------------
(* Properties of the retry controller and its collaborators *)

\* the item this invocation wrote
LastItem == decisionStore[Len(decisionStore)]

\* the loop has been left and the flow is at or past the store write
PostLoop ==
    \/ pc \in {"record", "publish", "done"}
    \/ pc = "raised" /\ raisedBy \in {"store", "cloudwatch", "keyerror"}

InLoop == pc \in {"generate", "judge"}

LastVerdict == verdictLog[Len(verdictLog)]

\* every verdict so far is a rejection for a reason other than appropriateness
AllRetryable ==
    \A i \in 1..Len(verdictLog) :
        ~verdictLog[i].approved /\ verdictLog[i].reason # "appropriateness"

\* C1: when every verdict is a rejection for a reason other than
\* appropriateness (brand, service_validity), the loop makes exactly
\* MAX_RETRIES+1 generator calls and as many judge calls, then ends, and the
\* record written carries status 'rejected'.
C1_RetryBound ==
    AllRetryable =>
        /\ genCalls <= MAX_RETRIES + 1
        /\ judgeCalls <= MAX_RETRIES + 1
        /\ Len(verdictLog) = MAX_RETRIES + 1 => ~InLoop
        /\ PostLoop => /\ genCalls = MAX_RETRIES + 1
                       /\ judgeCalls = MAX_RETRIES + 1
                       /\ Len(verdictLog) = MAX_RETRIES + 1
        /\ putCalls = 1 => LastItem.status = "rejected"

C1_Witness ==
    /\ pc = "publish" /\ putCalls = 1
    /\ Len(verdictLog) = MAX_RETRIES + 1
    /\ AllRetryable
    /\ verdictLog[1].reason = "service_validity"
    /\ verdictLog[2].reason = "brand"
    /\ genCalls = MAX_RETRIES + 1
    /\ LastItem.status = "rejected"

\* C2: a rejection for appropriateness ends the loop at that attempt: no later
\* generator or judge call, no retry consumed, the record is 'rejected'; on
\* the first attempt that is exactly one generation.
C2_EarlyExit ==
    \A i \in 1..Len(verdictLog) :
        (~verdictLog[i].approved /\ verdictLog[i].reason = "appropriateness") =>
            /\ i = Len(verdictLog)
            /\ ~InLoop
            /\ genCalls = i
            /\ judgeCalls = i
            /\ retry_count = i - 1
            /\ putCalls = 1 => /\ LastItem.status = "rejected"
                               /\ LastItem.retryCount = i - 1

C2_Witness ==
    /\ pc = "publish" /\ putCalls = 1
    /\ Len(verdictLog) = 1
    /\ ~verdictLog[1].approved /\ verdictLog[1].reason = "appropriateness"
    /\ genCalls = 1 /\ judgeCalls = 1
    /\ LastItem.status = "rejected"

C4_ApprovedOnlyIfJudged ==
    (putCalls = 1 /\ LastItem.status = "approved") =>
        /\ verdictLog # <<>>
        /\ LastVerdict.approved
        /\ LastVerdict.judged
        /\ ~LastVerdict.failed
        /\ LastVerdict.email = LastItem.emailContent
        /\ LastItem.judgeApproved = TRUE

C4_Witness ==
    /\ judgeImpl = "real"
    /\ putCalls = 1 /\ LastItem.status = "approved"
    /\ Len(verdictLog) = 2
    /\ verdictLog[1].failed
    /\ verdictLog[1].email # LastItem.emailContent

\* the inference call failed, timed out, or its answer did not parse to an object
JudgeCallFailed == lastResponse.kind = "error" \/ lastResponse.json \in {"invalid", "array"}

\* C5: call_bedrock_judge never raises; a failed or unparsable inference call
\* yields approved = false, score = 0 and an issue naming the failure.
C5_JudgeFailsClosed ==
    /\ raisedBy # "judge"
    /\ (judgeImpl = "real" /\ lastResponse.kind # "none" /\ JudgeCallFailed) =>
           /\ final_judgment.approved = FALSE
           /\ final_judgment.score = 0
           /\ final_judgment.issues = <<"Judge evaluation failed">>
           /\ ~approved

C5_Witness ==
    /\ judgeImpl = "real"
    /\ lastResponse.kind = "text" /\ lastResponse.json = "invalid"
    /\ pc = "generate"
    /\ final_judgment.approved = FALSE /\ final_judgment.score = 0

VerdictKeys == {"approved", "score", "issues", "feedback", "reason"}

\* C6: a judge answer holding approved, score, issues, feedback and reason is
\* returned by call_bedrock_judge with each of the five values unchanged.
C6_VerdictCarriesAllFields ==
    (/\ judgeImpl = "real"
     /\ lastResponse.kind = "text" /\ lastResponse.json = "object"
     /\ lastResponse.metrics = "ok"
     /\ VerdictKeys \subseteq DOMAIN lastResponse.obj) =>
        \A k \in VerdictKeys :
            /\ k \in DOMAIN final_judgment
            /\ final_judgment[k] = lastResponse.obj[k]

\* C7: with the real call_bedrock_judge, an answer {approved: false, reason:
\* 'appropriateness'} stops processing after that attempt and the record's
\* rejectionReason is 'appropriateness'.
C7_EndToEndEarlyExit ==
    (/\ judgeImpl = "real"
     /\ lastResponse.kind = "text" /\ lastResponse.json = "object"
     /\ lastResponse.metrics = "ok"
     /\ Get(lastResponse.obj, "approved", TRUE) = FALSE
     /\ Get(lastResponse.obj, "reason", "absent") = "appropriateness") =>
        /\ ~InLoop
        /\ genCalls = Len(verdictLog)
        /\ putCalls = 1 => LastItem.rejectionReason = "appropriateness"

\* C8: a failing generator call, on the first attempt or on a retry, is not
\* retried: process_message raises and writes no record.
C8_GenerationFailureIsFatal ==
    \A i \in 1..Len(genLog) :
        genLog[i].failed =>
            /\ i = Len(genLog)
            /\ pc = "raised"
            /\ raisedBy = "generator"
            /\ judgeCalls = i - 1
            /\ putCalls = 0
            /\ putFailures = 0

C8_Witness ==
    /\ Len(genLog) = 2
    /\ genLog[2].failed
    /\ pc = "raised"
    /\ putCalls = 0

AllJudgmentsFailed ==
    /\ judgeImpl = "real"
    /\ verdictLog # <<>>
    /\ \A i \in 1..Len(verdictLog) : verdictLog[i].failed

\* C9: when every judge call fails and generation succeeds, process_message
\* does not raise because of the judge and writes one record with status
\* 'rejected', judgeApproved false and judge score 0.
C9_JudgeFailureStillRecords ==
    AllJudgmentsFailed =>
        /\ raisedBy # "judge"
        /\ ~approved
        /\ PostLoop => Len(verdictLog) = MAX_RETRIES + 1
        /\ pc \in {"publish", "done"} => putCalls = 1
        /\ putCalls <= 1
        /\ putCalls = 1 => /\ LastItem.status = "rejected"
                           /\ LastItem.judgeApproved = FALSE
                           /\ LastItem.llmJudgeScore = 0

C9_Witness ==
    /\ AllJudgmentsFailed
    /\ pc = "done"
    /\ putCalls = 1
    /\ LastItem.status = "rejected" /\ LastItem.llmJudgeScore = 0
    /\ LastItem.retryCount = MAX_RETRIES + 1

StoreFailed(i) == errors[i].error = "store"

\* C10: a failed record write makes process_message raise, and lambda_handler
\* raise for the batch: the event is not among the results and the handler
\* does not return.
C10_StoreFailurePropagates ==
    /\ putFailures > 0 => /\ pc = "raised"
                          /\ raisedBy = "store"
                          /\ putCalls = 0
                          /\ result = NoResult
    /\ (\E i \in 1..Len(errors) : StoreFailed(i)) =>
           /\ hpc # "returned"
           /\ Len(results) + Len(errors) = idx - 1
           /\ Len(results) < idx - 1
    /\ hpc = "returned" => errors = <<>>

C10_Witness ==
    /\ hpc = "raised"
    /\ Len(batch) = 2
    /\ Len(errors) = 1 /\ StoreFailed(1) /\ errors[1].record = 2
    /\ Len(results) = 1

---------------------------------------------------------------------------
(* Properties of process_message's record and of the customer identity *)

CurrentCustomer == batch[idx]

Running == idx <= Len(batch) /\ pc # "idle"

\* C11: an invocation of process_message that returned has written exactly
\* one record, and an invocation that raised has written none.
C11_OneRecordIffReturns ==
    /\ pc = "done" => putCalls = 1
    /\ pc = "raised" => putCalls = 0

NoIdentity ==
    /\ "email" \notin DOMAIN CurrentCustomer
    /\ "id" \notin DOMAIN CurrentCustomer

IdOnly ==
    /\ "email" \notin DOMAIN CurrentCustomer
    /\ "id" \in DOMAIN CurrentCustomer

\* C12: for a customer with neither email nor id, process_message makes no
\* inference call, writes no record and emits no metric, and what it raises
\* is a validation error.
C12_NoIdentityNoSideEffect ==
    (Running /\ NoIdentity) =>
        /\ genCalls = 0 /\ judgeCalls = 0
        /\ putCalls = 0 /\ putFailures = 0
        /\ metricCalls = 0
        /\ pc = "raised" => raisedBy = "validation"

\* C13: for a customer with an id and no email, process_message does not
\* raise once its record is written: it returns its result and the handler
\* lists the record among the processed ones.
C13_IdOnlyCompletes ==
    (Running /\ IdOnly /\ putCalls = 1 /\ pc = "raised") => raisedBy = "cloudwatch"

---------------------------------------------------------------------------
(* register_agent and agent resolution as a system of their own *)

\* the orchestrator's handler is not running
OrchestratorAtRest ==
    /\ judgeImpl = "real"
    /\ batch = <<>>
    /\ hpc = "loop"
    /\ idx = 1
    /\ results = <<>>
    /\ errors = <<>>
    /\ decisionStore = <<>>
    /\ pc = "idle"
    /\ raisedBy = "none"
    /\ retry_count = 0
    /\ approved = FALSE
    /\ final_email_content = NoneText
    /\ final_judgment = NoneDict
    /\ generation_result = NoneDict
    /\ previous_feedback = NoneStr
    /\ result = NoResult
    /\ genCalls = 0
    /\ judgeCalls = 0
    /\ message_id = 0
    /\ putCalls = 0
    /\ putFailures = 0
    /\ metricCalls = 0
    /\ genLog = <<>>
    /\ verdictLog = <<>>
    /\ lastResponse = NoObserved

orchestratorVars == <<handlerVars, decisionStore, pc, localVars>>

InitRegistry ==
    /\ OrchestratorAtRest
    /\ RegistryAtRest
    /\ EnricherAtRest
    /\ WebhookAtRest

Responds(w, statusCode, action) ==
    regResponse' = [regResponse EXCEPT ![w] = [statusCode |-> statusCode, action |-> action]]

\* the register_agent handler up to the get_item check: validate the body,
\* read the table name, prepare agent_record, look the key up; a failing
\* get_item is logged and leads to the create path
RegisterAgentCall(w) ==
    /\ UNCHANGED <<enricherVars, webhookVars>>
    /\ regPc[w] = "idle" /\ regCalls < MaxRegs
    /\ regCalls' = regCalls + 1
    /\ \E agent_config \in AgentConfigs, ssmOk \in BOOLEAN, getOk \in BOOLEAN :
         IF ~ValidateAgentConfig(agent_config)
           THEN /\ Responds(w, 400, "none")
                /\ UNCHANGED <<regPc, regRec, regClock>>
           ELSE IF ~ssmOk
                  THEN /\ Responds(w, 500, "none")
                       /\ UNCHANGED <<regPc, regRec, regClock>>
                  ELSE LET agent_record == AgentRecord(agent_config, regClock + 1)
                       IN  /\ regClock' = regClock + 1
                           /\ regRec' = [regRec EXCEPT ![w] = agent_record]
                           /\ regPc' = [regPc EXCEPT ![w] =
                                          IF getOk /\ HasItem(registry, agent_record)
                                            THEN "update" ELSE "create"]
                           /\ regResponse' = [regResponse EXCEPT ![w] = NoResponse]
    /\ UNCHANGED <<registry, paramCache, agentResult, agentObs, orchestratorVars>>

\* the key exists: stamp updatedAt and put; a failing put is caught by the
\* same except clause and leads to the create path
RegisterUpdate(w) ==
    /\ UNCHANGED <<enricherVars, webhookVars>>
    /\ regPc[w] = "update"
    /\ regClock' = regClock + 1
    /\ \E putOk \in BOOLEAN :
         LET agent_record == [regRec[w] EXCEPT !["updatedAt"] = regClock + 1]
         IN  IF putOk
               THEN /\ registry' = PutItem(registry, agent_record)
                    /\ Responds(w, 200, "updated")
                    /\ regPc' = [regPc EXCEPT ![w] = "idle"]
                    /\ regRec' = [regRec EXCEPT ![w] = NoAgentRecord]
               ELSE /\ registry' = registry
                    /\ regResponse' = regResponse
                    /\ regPc' = [regPc EXCEPT ![w] = "create"]
                    /\ regRec' = [regRec EXCEPT ![w] = agent_record]
    /\ UNCHANGED <<regCalls, paramCache, agentResult, agentObs, orchestratorVars>>

\* the create path: put the record; a failing put reaches the handler's
\* except clause
RegisterCreate(w) ==
    /\ UNCHANGED <<enricherVars, webhookVars>>
    /\ regPc[w] = "create"
    /\ \E putOk \in BOOLEAN :
         IF putOk
           THEN /\ registry' = PutItem(registry, regRec[w])
                /\ Responds(w, 200, "created")
           ELSE /\ registry' = registry
                /\ Responds(w, 500, "none")
    /\ regPc' = [regPc EXCEPT ![w] = "idle"]
    /\ regRec' = [regRec EXCEPT ![w] = NoAgentRecord]
    /\ UNCHANGED <<regClock, regCalls, paramCache, agentResult, agentObs, orchestratorVars>>

\* one get_active_agent('upsell-generator') call of the orchestrator
ResolveAgent ==
    /\ UNCHANGED <<enricherVars, webhookVars>>
    /\ \E answers \in AgentAnswers :
         LET r == GetActiveAgent("upsell-generator", registry, paramCache, answers)
         IN  /\ agentResult' = [exc |-> r.exc, val |-> r.val]
             /\ paramCache' = r.cache
             /\ agentObs' = [called     |-> TRUE,
                             agent_id   |-> "upsell-generator",
                             cached     |-> paramCache,
                             answers    |-> answers,
                             production |-> {q \in registry : q["status"] = "production"}]
    /\ UNCHANGED <<registry, regPc, regRec, regResponse, regClock, regCalls,
                   orchestratorVars>>

\* concurrent register_agent invocations
NextRegistry ==
    \/ \E w \in RegWorkers : RegisterAgentCall(w)
    \/ \E w \in RegWorkers : RegisterUpdate(w)
    \/ \E w \in RegWorkers : RegisterCreate(w)

SpecRegistry == InitRegistry /\ [][NextRegistry]_vars

\* agent resolution next to registrations made one after the other; the
\* resolution reads the table in a single query
NextResolve ==
    \/ RegisterAgentCall("r1")
    \/ RegisterUpdate("r1")
    \/ RegisterCreate("r1")
    \/ ResolveAgent

SpecResolve == InitRegistry /\ [][NextResolve]_vars

---------------------------------------------------------------------------
(* Properties of agent resolution and of the registry *)

\* the registry lookup of the observed get_active_agent call raised
LookupRaised ==
    \/ TableParam \notin agentObs.cached /\ ~agentObs.answers.table
    \/ ~agentObs.answers.query

\* the query of the observed call was answered, with no item
QueryReturnedNone ==
    /\ ~LookupRaised
    /\ QueryProduction(agentObs.production, agentObs.agent_id) = <<>>

\* the legacy parameter is cached or SSM answers the lookup of it
LegacyAvailable ==
    \/ LegacyParam \in agentObs.cached
    \/ agentObs.answers.legacy[1]

\* C14: when the registry query returns no production record or the lookup
\* raises, get_active_agent returns the legacy configuration (legacy model
\* id, version 'legacy', no template, empty config); it raises only when the
\* legacy parameter is unavailable as well.
C14_LegacyFallback ==
    agentObs.called =>
        /\ ((LookupRaised \/ QueryReturnedNone) /\ LegacyAvailable) =>
               agentResult = Ok(LegacyConfig(ParamValue(LegacyParam)))
        /\ ((LookupRaised \/ QueryReturnedNone) /\ agentResult.exc = "none") =>
               agentResult.val = [model_id |-> "legacy-model", version |-> "legacy",
                                  promptTemplate |-> NoneStr, config |-> EmptyConfig]
        /\ agentResult.exc # "none" =>
               /\ LookupRaised \/ QueryReturnedNone
               /\ ~LegacyAvailable

C14_Witness ==
    /\ agentObs.called
    /\ LookupRaised
    /\ \E r \in registry : r["status"] = "production" /\ r["agentId"] = agentObs.agent_id
    /\ agentResult.exc = "none"
    /\ agentResult.val["version"] = "legacy"

\* the production records of the requested agent at the observed call
OwnProduction == {r \in agentObs.production : r["agentId"] = agentObs.agent_id}

\* C15: whenever the registry holds a production record of the requested
\* agentId, get_active_agent returns the most recently created one (model,
\* version, template, config), whatever other agents' records are present.
C15_NewestProductionRecord ==
    (agentObs.called /\ ~LookupRaised /\ OwnProduction # {}) =>
        agentResult = Ok(AgentOf(Newest(OwnProduction)))

\* C16: the registry never holds two records under one (agentId, version).
C16_OneRecordPerKey ==
    \A a \in registry, b \in registry : SameKey(a, b) => a = b

C16_Witness ==
    /\ \E w \in RegWorkers : regResponse[w].action = "updated"
    /\ \E w \in RegWorkers : regResponse[w].action = "created"
    /\ Cardinality(registry) = 1
    /\ \E r \in registry : r["updatedAt"] > r["createdAt"]

---------------------------------------------------------------------------
(* The feature-enricher handler as a system of its own *)

InitEnricher ==
    /\ OrchestratorAtRest
    /\ RegistryAtRest
    /\ EnricherAtRest
    /\ WebhookAtRest

Truthy(customer_data, k) == Get(customer_data, k, 0) # 0

\* the handler through enrich_customer_features: the email check, the
\* table-name parameter, get_item (a failure is logged and the customer is
\* taken as new), the computed features and the record with its timestamps
EnrichCallOn(w, limit, events) ==
    /\ enrPc[w] = "idle" /\ enrCalls < limit
    /\ enrCalls' = enrCalls + 1
    /\ \E customer_data \in events, ssmOk \in BOOLEAN, getOk \in BOOLEAN :
         IF "email" \notin DOMAIN customer_data
           THEN /\ enrResponse' = [enrResponse EXCEPT ![w] = 500]
                /\ enrEvent' = [enrEvent EXCEPT ![w] = customer_data]
                /\ enrSaw' = [enrSaw EXCEPT ![w] = "invalid"]
                /\ UNCHANGED <<enrPc, enrRec, enrClock>>
           ELSE IF ~ssmOk
           THEN /\ enrResponse' = [enrResponse EXCEPT ![w] = 500]
                /\ enrEvent' = [enrEvent EXCEPT ![w] = NoEvent]
                /\ enrSaw' = [enrSaw EXCEPT ![w] = "none"]
                /\ UNCHANGED <<enrPc, enrRec, enrClock>>
           ELSE LET existing_features == IF getOk THEN featureStore ELSE NoItem
                IN  \E satisfaction_avg \in
                           CalculateSatisfactionAvg(customer_data, existing_features) :
                      /\ enrClock' = enrClock + 1
                      /\ enrRec' = [enrRec EXCEPT ![w] =
                                      FeatureRecord(customer_data, existing_features,
                                                    satisfaction_avg, enrClock + 1)]
                      /\ enrEvent' = [enrEvent EXCEPT ![w] = customer_data]
                      /\ enrSaw' = [enrSaw EXCEPT ![w] =
                                      IF ~getOk THEN "failed"
                                      ELSE IF featureStore = NoItem THEN "none" ELSE "item"]
                      /\ enrPc' = [enrPc EXCEPT ![w] = "write"]
                      /\ enrResponse' = [enrResponse EXCEPT ![w] = 0]
    /\ UNCHANGED <<featureStore, enrClean, enrSeed, enrN, enrSum, enrObserved,
                   orchestratorVars,
                   registryVars, webhookVars>>

EnrichCall(w, limit) == EnrichCallOn(w, limit, EnricherEvents)

\* this write continues a history in which every event carried a score and
\* read the store
StaysClean(w) ==
    /\ enrClean
    /\ enrSaw[w] # "failed"
    /\ "satisfaction_score" \in DOMAIN enrEvent[w]

\* the scores observed once this event is stored; the tally stops at an event
\* whose get_item failed
Observe(w) ==
    IF ~enrObserved.ok \/ enrSaw[w] = "failed"
      THEN TallyStopped
      ELSE [n      |-> enrObserved.n
                         + (IF "satisfaction_score" \in DOMAIN enrEvent[w] THEN 1 ELSE 0),
            sum    |-> enrObserved.sum + Get(enrEvent[w], "satisfaction_score", 0),
            seeded |-> \/ enrObserved.seeded
                       \/ enrSaw[w] = "none" /\ Truthy(enrEvent[w], "services_count"),
            ok     |-> TRUE]

\* update_feature_store: put the record; a failure reaches the handler's
\* except clause
EnrichWrite(w) ==
    /\ enrPc[w] = "write"
    /\ \E putOk \in BOOLEAN :
         IF putOk
           THEN /\ featureStore' = enrRec[w]
                /\ enrResponse' = [enrResponse EXCEPT ![w] = 200]
                /\ enrClean' = StaysClean(w)
                /\ enrN' = IF StaysClean(w) THEN enrN + 1 ELSE 0
                /\ enrSum' = IF StaysClean(w)
                               THEN enrSum + enrEvent[w]["satisfaction_score"] ELSE 0
                /\ enrObserved' = Observe(w)
                /\ enrSeed' = IF ~StaysClean(w) THEN 0
                              ELSE IF enrN = 0
                                     THEN Get(enrEvent[w], "services_count", 0)
                                     ELSE enrSeed
           ELSE /\ enrResponse' = [enrResponse EXCEPT ![w] = 500]
                /\ UNCHANGED <<featureStore, enrClean, enrN, enrSum, enrSeed, enrObserved>>
    /\ enrPc' = [enrPc EXCEPT ![w] = "idle"]
    /\ enrRec' = [enrRec EXCEPT ![w] = NoItem]
    /\ enrEvent' = [enrEvent EXCEPT ![w] = NoEvent]
    /\ enrSaw' = [enrSaw EXCEPT ![w] = "none"]
    /\ UNCHANGED <<enrClock, enrCalls, orchestratorVars, registryVars, webhookVars>>

\* concurrent invocations for the one customer
NextEnricher ==
    \/ \E w \in EnrWorkers : EnrichCall(w, MaxRaces)
    \/ \E w \in EnrWorkers : EnrichWrite(w)

SpecEnricher == InitEnricher /\ [][NextEnricher]_vars

\* one invocation after the other
NextSequential ==
    \/ EnrichCall("e1", MaxEvents)
    \/ EnrichWrite("e1")

SpecSequential == InitEnricher /\ [][NextSequential]_vars

---------------------------------------------------------------------------
(* Properties of the feature snapshot *)

\* invocation w has built its record after a read that found no item
BuiltForNewCustomer(w) == enrPc[w] = "write" /\ enrSaw[w] = "none"

\* the average of a first event: its own score, or the default
OwnScoreOrDefault(customer_data) ==
    IF "satisfaction_score" \in DOMAIN customer_data
      THEN 100 * customer_data["satisfaction_score"]
      ELSE DefaultSatisfaction

\* C17 as stated: for a customer with no snapshot the enricher produces
\* service_count = 1 and the event's own score (3.5 without one) as average.
C17_NewCustomerCountIsOne ==
    \A w \in EnrWorkers :
        BuiltForNewCustomer(w) =>
            /\ enrRec[w]["service_count"] = 1
            /\ enrRec[w]["satisfaction_avg"] = OwnScoreOrDefault(enrEvent[w])

\* C17 amended: for a customer with no snapshot the enricher produces the
\* event's own score (3.5 without one) as average, and as service_count the
\* event's services_count when it supplies a non-zero one, 1 otherwise.
C17_NewCustomerSnapshot ==
    \A w \in EnrWorkers :
        BuiltForNewCustomer(w) =>
            /\ enrRec[w]["service_count"] =
                   IF Truthy(enrEvent[w], "services_count")
                     THEN enrEvent[w]["services_count"] ELSE 1
            /\ enrRec[w]["satisfaction_avg"] = OwnScoreOrDefault(enrEvent[w])

C17_Witness ==
    \E w \in EnrWorkers :
        /\ BuiltForNewCustomer(w)
        /\ Truthy(enrEvent[w], "services_count")
        /\ "satisfaction_score" \notin DOMAIN enrEvent[w]
        /\ enrRec[w]["service_count"] = 3
        /\ enrRec[w]["satisfaction_avg"] = 350

\* the events stored so far were processed one after the other, each with a
\* score, and their record is the stored one
StoredSequence == enrClean /\ enrN >= 1 /\ featureStore # NoItem

Abs(x) == IF x < 0 THEN 0 - x ELSE x

\* C18 as stated: after N scored events processed sequentially from no
\* snapshot the stored average is mean(s1..sN) rounded to 2 decimals and the
\* stored service_count is N.
C18_MeanOfAllScores ==
    StoredSequence =>
        /\ featureStore["service_count"] = enrN
        /\ featureStore["satisfaction_avg"] \in Round2(100 * enrSum, enrN)

\* C18 amended: when the first event supplies no services_count, the stored
\* service_count is N and the stored average, rounded at every step, stays
\* within (N(N+1)/2 - 1) / (2N) hundredths of mean(s1..sN).
C18_RunningAverage ==
    (StoredSequence /\ enrSeed = 0) =>
        /\ featureStore["service_count"] = enrN
        /\ 4 * Abs(enrN * featureStore["satisfaction_avg"] - 100 * enrSum)
               <= enrN * (enrN + 1) - 2

\* seven events without services_count whose stored average is not the
\* rounded mean
C18_Witness ==
    /\ StoredSequence /\ enrSeed = 0
    /\ enrN = MaxEvents
    /\ featureStore["service_count"] = enrN
    /\ featureStore["satisfaction_avg"] \notin Round2(100 * enrSum, enrN)

\* C19: the stored service_count never decreases.
C19_CountNeverDecreases ==
    [][(featureStore # NoItem /\ featureStore' # NoItem) =>
           featureStore'["service_count"] >= featureStore["service_count"]]_vars

\* C20: once a record exists, every later write stores the same first_seen.
C20_FirstSeenImmutable ==
    [][(featureStore # NoItem /\ featureStore' # NoItem) =>
           featureStore'["first_seen"] = featureStore["first_seen"]]_vars

---------------------------------------------------------------------------
(* get_lifetime_value over the records a customer's history can have left *)

MaxClassified == 2

\* feature records of an earlier history, around the thresholds of the tier
StoredRecords ==
    { [customerEmail    |-> "a@b.com",
       satisfaction_avg |-> a,
       service_count    |-> c,
       lifetime_value   |-> Classify(c, a),
       property_features |-> NoKeys(PropertyKeys),
       last_updated     |-> 0,
       first_seen       |-> 0] :
        a \in {100, 349, 350, 399, 400, 440, 500}, c \in {1, 2, 4, 5, 6} }

InitLifetime ==
    /\ OrchestratorAtRest
    /\ RegistryAtRest
    /\ WebhookAtRest
    /\ featureStore \in StoredRecords
    /\ enrPc = [w \in EnrWorkers |-> "idle"]
    /\ enrEvent = [w \in EnrWorkers |-> NoEvent]
    /\ enrSaw = [w \in EnrWorkers |-> "none"]
    /\ enrRec = [w \in EnrWorkers |-> NoItem]
    /\ enrResponse = [w \in EnrWorkers |-> 0]
    /\ enrClock = 0
    /\ enrCalls = 0
    /\ enrClean = FALSE
    /\ enrSeed = 0
    /\ enrN = 0
    /\ enrSum = 0
    /\ enrObserved = TallyStopped

NextLifetime ==
    \/ EnrichCall("e1", MaxClassified)
    \/ EnrichWrite("e1")

SpecLifetime == InitLifetime /\ [][NextLifetime]_vars

\* invocation w has built its record for an event that supplies no tier
TierComputed(w) ==
    /\ enrPc[w] = "write"
    /\ "customer_lifetime_value" \notin DOMAIN enrEvent[w]

\* C21: without a supplied customer_lifetime_value the tier is 'high' iff
\* count >= 6 and satisfaction >= 4.0, otherwise 'medium' iff count >= 3 or
\* satisfaction >= 3.5, otherwise 'low', for the count and average computed.
C21_LifetimeThresholds ==
    \A w \in EnrWorkers :
        TierComputed(w) =>
            LET c == enrRec[w]["service_count"]
                s == enrRec[w]["satisfaction_avg"]
                isHigh == c >= 6 /\ s >= 400
                isMedium == ~isHigh /\ (c >= 3 \/ s >= 350)
            IN  /\ enrRec[w]["lifetime_value"] \in {"high", "medium", "low"}
                /\ enrRec[w]["lifetime_value"] = "high" <=> isHigh
                /\ enrRec[w]["lifetime_value"] = "medium" <=> isMedium
                /\ enrRec[w]["lifetime_value"] = "low" <=> (~isHigh /\ ~isMedium)

C21_Witness ==
    /\ TierComputed("e1")
    /\ enrRec["e1"]["service_count"] = 6
    /\ enrRec["e1"]["satisfaction_avg"] = 400
    /\ enrRec["e1"]["lifetime_value"] = "high"

\* count = 3 with an average below 3.5 is classified 'medium'
C21_MediumAtThree ==
    /\ TierComputed("e1")
    /\ enrRec["e1"]["service_count"] = 3
    /\ enrRec["e1"]["satisfaction_avg"] < 350
    /\ enrRec["e1"]["lifetime_value"] = "medium"

---------------------------------------------------------------------------
(* Properties of the decision store, the retry count and the attempts *)

StoredIds == {decisionStore[i]["messageId"] : i \in 1..Len(decisionStore)}

\* C22: a record write adds one record under an id no stored record carries
\* and leaves every stored record as it was, also when the same event is
\* processed again.
C22_FreshIdPerWrite ==
    [][/\ Len(decisionStore') >= Len(decisionStore)
       /\ \A i \in 1..Len(decisionStore) : decisionStore'[i] = decisionStore[i]
       /\ decisionStore' # decisionStore =>
              /\ Len(decisionStore') = Len(decisionStore) + 1
              /\ decisionStore'[Len(decisionStore')]["messageId"] \notin StoredIds]_vars

\* the same event processed twice has left two records under two ids
C22_Witness ==
    /\ Len(batch) = 2 /\ batch[1] = batch[2]
    /\ Len(decisionStore) = 2
    /\ decisionStore[1]["messageId"] # decisionStore[2]["messageId"]
    /\ decisionStore[1]["customerEmail"] = decisionStore[2]["customerEmail"]

---------------------------------------------------------------------------
(* The webhook handler as a system of its own *)

InitWebhook ==
    /\ OrchestratorAtRest
    /\ RegistryAtRest
    /\ EnricherAtRest
    /\ WebhookAtRest

\* the bookkeeping of one get_parameter(parameter_name) call that ended as g
Looked(parameter_name, g) ==
    /\ whLookup' = [name |-> parameter_name, exc |-> g.exc, val |-> g.val,
                    requests |-> g.requests]
    /\ whCache' = g.cache
    /\ whHad' = (whValue[parameter_name] # NoneStr)
    /\ whValue' = IF g.exc = "none" /\ whValue[parameter_name] = NoneStr
                    THEN [whValue EXCEPT ![parameter_name] = g.val]
                    ELSE whValue

Answered(statusCode, sent) ==
    whResponse' = [statusCode |-> statusCode, sent |-> sent]

\* lambda_handler of the webhook: parse the body, validate it, read the queue
\* url, send the payload; JSONDecodeError and an invalid payload answer 400,
\* any other exception 500
WebhookRequest ==
    /\ whCalls < MaxRequests
    /\ whCalls' = whCalls + 1
    /\ \E body \in WebhookBodies, answers \in SsmAnswers, sqsOk \in BOOLEAN :
         /\ whRequest' = body
         /\ IF body.kind = "notjson"
              THEN /\ whValidation' = NotValidated
                   /\ Answered(400, 0)
                   /\ UNCHANGED <<whQueue, whCache, whLookup, whHad, whValue>>
              ELSE /\ whValidation' = ValidateWebhookPayload(body)
                   /\ IF ~whValidation'[1]
                        THEN /\ Answered(400, 0)
                             /\ UNCHANGED <<whQueue, whCache, whLookup, whHad, whValue>>
                        ELSE LET g == WebhookGetParameter(QueueParam, whCache, answers)
                             IN  /\ Looked(QueueParam, g)
                                 /\ IF g.exc = "none" /\ sqsOk
                                      THEN /\ whQueue' = Append(whQueue, body.payload)
                                           /\ Answered(200, 1)
                                      ELSE /\ whQueue' = whQueue
                                           /\ Answered(500, 0)
    /\ UNCHANGED <<orchestratorVars, registryVars, enricherVars>>

\* a get_parameter call on its own, in the process of the handler
WebhookParameterCall ==
    /\ whCalls < MaxRequests
    /\ whCalls' = whCalls + 1
    /\ \E parameter_name \in ParamNames, answers \in SsmAnswers :
         Looked(parameter_name, WebhookGetParameter(parameter_name, whCache, answers))
    /\ UNCHANGED <<whRequest, whValidation, whResponse, whQueue, orchestratorVars,
                   registryVars, enricherVars>>

NextWebhook ==
    \/ WebhookRequest
    \/ WebhookParameterCall

SpecWebhook == InitWebhook /\ [][NextWebhook]_vars

---------------------------------------------------------------------------
(* Properties of the webhook handler *)

WellFormedEmails == {"john.smith@example.com"}

\* the payload has event_type, a well-formed customer.email, and is not
\* marked referral_eligible = false
CompleteValid(payload) ==
    /\ "event_type" \in DOMAIN payload
    /\ "customer" \in DOMAIN payload
    /\ "email" \in DOMAIN payload["customer"]
    /\ payload["customer"]["email"] \in WellFormedEmails
    /\ Get(payload, "referral_eligible", TRUE)

\* C23: validate_webhook_payload returns (True, '') for a complete valid
\* payload and (False, a message) for a payload without event_type, without
\* customer.email, with a malformed email, or with referral_eligible false.
C23_ValidationRejectsDefects ==
    whRequest.kind = "dict" =>
        IF CompleteValid(whRequest.payload)
          THEN whValidation = <<TRUE, "">>
          ELSE ~whValidation[1] /\ whValidation[2] # ""

\* C24: a body that is not JSON or a payload that is invalid is answered 400
\* with nothing sent to SQS; 200 is answered only after exactly one message
\* with the payload was sent.
C24_RejectsBeforeSending ==
    whRequest.kind # "none" =>
        /\ (whRequest.kind # "dict" \/ ~CompleteValid(whRequest.payload)) =>
               whResponse = [statusCode |-> 400, sent |-> 0]
        /\ whResponse.statusCode = 200 =>
               /\ whResponse.sent = 1
               /\ whQueue # <<>>
               /\ whQueue[Len(whQueue)] = whRequest.payload

\* C25: once get_parameter(name) has succeeded, every later call for the name
\* returns that value and issues no SSM request.
C25_CachedAfterSuccess ==
    whHad =>
        /\ whLookup.exc = "none"
        /\ whLookup.val = whValue[whLookup.name]
        /\ whLookup.requests = 0

---------------------------------------------------------------------------
(* The retry loop as a whole: its length, what it hands to the generator, *)
(* and what reaches the decision store                                    *)

\* one invocation of process_message: a batch of one record
InitOne == Init /\ Len(batch) = 1

\* process_message runs to completion once invoked: the Lambda runtime keeps
\* executing the handler, so a step that can be taken is taken
SpecFair == InitOne /\ [][Next]_vars /\ WF_vars(Next)

\* the loop was left by its condition or its break
LoopEnded == PostLoop

\* the generator raised, which leaves process_message from inside the loop
GenerationFailed == pc = "raised" /\ raisedBy \notin {"config", "store", "cloudwatch", "keyerror"}

\* the loop's outcome: approved, or rejected by an appropriateness verdict or
\* by the verdict of the last attempt allowed
Decided ==
    /\ verdictLog # <<>>
    /\ approved = LastVerdict.approved
    /\ ~approved => \/ LastVerdict.reason = "appropriateness"
                    \/ Len(verdictLog) = MAX_RETRIES + 1

AttemptsBounded ==
    /\ genCalls <= MAX_RETRIES + 1
    /\ judgeCalls <= genCalls
    /\ Len(verdictLog) = judgeCalls \/ (pc = "raised" /\ raisedBy = "judge")
    /\ InLoop => retry_count <= MAX_RETRIES /\ ~approved
    /\ LoopEnded => Decided

\* C26: whatever the judge answers (approvals, retryable rejections,
\* appropriateness rejections, failed judgments), process_message makes at
\* most MAX_RETRIES+1 generation attempts, and a loop that was entered ends:
\* in an approved or rejected outcome, unless the generator raised.
C26_LoopTerminates ==
    /\ []AttemptsBounded
    /\ InLoop ~> (LoopEnded \/ GenerationFailed)

C26_Witness ==
    /\ pc = "record"
    /\ genCalls = MAX_RETRIES + 1
    /\ Len(verdictLog) = MAX_RETRIES + 1
    /\ verdictLog[1].failed
    /\ ~verdictLog[2].failed /\ ~verdictLog[2].approved
    /\ LastVerdict.approved

\* C27: the retryCount written to the record and returned by process_message
\* is the number of retries performed, i.e. generator calls minus one, and
\* never exceeds MAX_RETRIES.
C27_RetryCountIsRetries ==
    /\ putCalls = 1 => /\ LastItem.retryCount = genCalls - 1
                       /\ LastItem.retryCount <= MAX_RETRIES
    /\ pc = "done" => /\ result.retry_count = genCalls - 1
                      /\ result.retry_count <= MAX_RETRIES

\* the retryCount is right whenever the loop did not end by exhaustion
RetryCountUnlessExhausted ==
    (putCalls = 1 /\ (approved \/ LastVerdict.reason = "appropriateness")) =>
        LastItem.retryCount = genCalls - 1

\* C28: attempt 0 calls the generator with retry_count = 0 and no previous
\* feedback; each retry i >= 1 calls it with retry_count = i and the feedback
\* of the verdict of attempt i-1, which is what the prompt's feedback note
\* shows when it is not empty.
C28_FeedbackOfPreviousAttempt ==
    \A i \in 1..Len(genLog) :
        /\ genLog[i].retry_count = i - 1
        /\ i = 1 => /\ genLog[i].previous_feedback = NoneStr
                    /\ genLog[i].note = NoneStr
        /\ i > 1 => /\ Len(verdictLog) >= i - 1
                    /\ genLog[i].previous_feedback = verdictLog[i - 1].feedback
                    /\ genLog[i].note = IF verdictLog[i - 1].feedback = ""
                                          THEN NoneStr ELSE verdictLog[i - 1].feedback

C28_Witness ==
    /\ Len(genLog) = MAX_RETRIES + 1
    /\ verdictLog[1].feedback # verdictLog[2].feedback
    /\ verdictLog[2].feedback # ""
    /\ genLog[2].note = verdictLog[1].feedback
    /\ genLog[3].note = verdictLog[2].feedback

\* C29: the record's emailContent and its verdict fields (approved, score,
\* feedback, issues) are those of the last attempt executed, approved or not:
\* the draft recorded is the one the recorded verdict judged.
C29_RecordOfLastAttempt ==
    putCalls = 1 =>
        /\ Len(verdictLog) = genCalls
        /\ LastItem.emailContent = generation_result.email_content
        /\ LastItem.emailContent = LastVerdict.email
        /\ LastItem.judgeApproved = LastVerdict.verdict["approved"]
        /\ LastItem.llmJudgeScore = LastVerdict.verdict["score"]
        /\ LastItem.judgeFeedback = LastVerdict.verdict["feedback"]
        /\ LastItem.judgeIssues = LastVerdict.verdict["issues"]

C29_Witness ==
    /\ putCalls = 1
    /\ Len(verdictLog) = MAX_RETRIES + 1
    /\ LastItem.status = "rejected"
    /\ LastItem.emailContent = <<"b">>
    /\ verdictLog[1].email = <<"a">> /\ verdictLog[2].email = <<"a">>
    /\ verdictLog[2].feedback # LastItem.judgeFeedback
    /\ LastItem.judgeFeedback = LastVerdict.feedback

\* a step that changes the messages table
StoreChanges == decisionStore' # decisionStore

\* C30: one invocation of process_message writes at most one record, and only
\* once its loop has ended in an outcome: no write is attempted before the
\* first attempt, between attempts, or after the generator raised, so an
\* invocation abandoned at an attempt boundary has left the table as it was;
\* the one write adds the one record and touches no other.
C30_SingleWriteAfterLoop ==
    /\ [](/\ putCalls + putFailures <= 1
          /\ (InLoop \/ pc \in {"idle", "config"} \/ GenerationFailed
                \/ (pc = "raised" /\ raisedBy = "config")) =>
                 putCalls + putFailures = 0)
    /\ [][StoreChanges =>
            /\ pc = "record" /\ Decided
            /\ putCalls = 0 /\ putCalls' = 1
            /\ Len(decisionStore') = Len(decisionStore) + 1
            /\ SubSeq(decisionStore', 1, Len(decisionStore)) = decisionStore]_vars

C30_Witness ==
    /\ pc = "publish" /\ putCalls = 1
    /\ Len(decisionStore) = 2
    /\ LastItem.messageId # decisionStore[1]["messageId"]
    /\ verdictLog # <<>>

\* a rejection whose reason is missing or is not 'appropriateness'
RetryableAt(i) == ~verdictLog[i].approved /\ verdictLog[i].reason # "appropriateness"

\* C31: a rejection whose reason is missing or is any value other than
\* 'appropriateness' is handled as a retryable rejection: while attempts
\* remain, the next generator call follows with the rejection's feedback, and
\* the rejection is final only as the verdict of the last attempt allowed.
C31_OtherReasonsRetry ==
    \A i \in 1..Len(verdictLog) :
        (RetryableAt(i) /\ i <= MAX_RETRIES) =>
            /\ LoopEnded => Len(verdictLog) > i
            /\ retry_count >= i
            /\ IF Len(genLog) > i
                 THEN genLog[i + 1].previous_feedback = verdictLog[i].feedback
                 ELSE /\ pc = "generate"
                      /\ previous_feedback = verdictLog[i].feedback
                      /\ retry_count = i

C31_Witness ==
    /\ Len(verdictLog) = 2 /\ Len(genLog) = MAX_RETRIES + 1
    /\ ~verdictLog[1].approved /\ verdictLog[1].reason = "absent"
    /\ ~verdictLog[2].approved /\ verdictLog[2].reason = "tone"
    /\ genLog[2].note = verdictLog[1].feedback
    /\ genLog[3].note = verdictLog[2].feedback
    /\ verdictLog[1].feedback # verdictLog[2].feedback

---------------------------------------------------------------------------
(* The feature snapshot over events with and without a score *)

\* events stored one after the other from no snapshot, each after a read of
\* the store, none seeding the count, at least one with a score
ObservedSequence ==
    /\ enrObserved.ok /\ ~enrObserved.seeded
    /\ enrObserved.n >= 1
    /\ featureStore # NoItem

\* C32: the stored satisfaction_avg is the cumulative mean of the scores
\* observed, also when some events carry no score (here up to the drift that
\* rounding at every step allows): an event without a score leaves the
\* average as it was and does not change the weight of later scores.
C32_MeanOfObservedScores ==
    /\ ObservedSequence =>
         LET n == enrObserved.n
             N == featureStore["service_count"]
         IN  4 * Abs(n * featureStore["satisfaction_avg"] - 100 * enrObserved.sum)
                 <= N * (N + 1) - 2
    /\ \A w \in EnrWorkers :
         (enrPc[w] = "write" /\ enrSaw[w] = "item"
            /\ "satisfaction_score" \notin DOMAIN enrEvent[w]) =>
             enrRec[w]["satisfaction_avg"] = featureStore["satisfaction_avg"]

\* the part that holds: with a snapshot read, an event without a score leaves
\* the average as it was
ScorelessKeepsAverage ==
    \A w \in EnrWorkers :
        (enrPc[w] = "write" /\ enrSaw[w] = "item"
           /\ "satisfaction_score" \notin DOMAIN enrEvent[w]) =>
            enrRec[w]["satisfaction_avg"] = featureStore["satisfaction_avg"]

Tiers == {"high", "medium", "low"}

\* C33: every lifetime_value written to the feature store is 'high',
\* 'medium' or 'low', also for an event that supplies
\* customer_lifetime_value itself.
C33_TierInEnum ==
    /\ featureStore # NoItem => featureStore["lifetime_value"] \in Tiers
    /\ \A w \in EnrWorkers :
         enrPc[w] = "write" => enrRec[w]["lifetime_value"] \in Tiers

\* the part that holds: an event's own tier that differs from a tier name
\* only in case is written as that tier
SuppliedTierLowered ==
    \A w \in EnrWorkers :
        (enrPc[w] = "write" /\ Get(enrEvent[w], "customer_lifetime_value", "") = "HIGH") =>
            enrRec[w]["lifetime_value"] = "high"

---------------------------------------------------------------------------
(* The property features of the snapshot *)

MaxDescribed == 2

\* events that describe the property, and one that does not
DescribingEvents == PropertyEvents \cup {EventOf(<<"a@b.com">>, <<1>>, <<>>, <<>>)}

NextProperty ==
    \/ EnrichCallOn("e1", MaxDescribed, DescribingEvents)
    \/ EnrichWrite("e1")

SpecProperty == InitEnricher /\ [][NextProperty]_vars

\* the fields of the event behind each key of property_features
FieldOfEvent(customer_data, k) ==
    IF k \in AddressKeys
      THEN Get(customer_data, "address", NoKeys(AddressKeys))[k]
      ELSE Get(customer_data, "property_info", NoKeys(PropertyInfoKeys))
               [IF k = "property_type" THEN "type" ELSE k]

\* C34: property_features holds a key only for a field the event carries: a
\* field absent from the event's address or property_info is left out, never
\* stored as null or as a default.
C34_AbsentFieldsOmitted ==
    \A w \in EnrWorkers :
        enrPc[w] = "write" =>
            \A k \in PropertyKeys :
                enrRec[w]["property_features"][k] = FieldOfEvent(enrEvent[w], k)

\* the part that holds: a field the event carries is stored as it is, and an
\* event without address and property_info gives no key at all
PresentFieldsKept ==
    \A w \in EnrWorkers :
        enrPc[w] = "write" =>
            \A k \in PropertyKeys :
                /\ FieldOfEvent(enrEvent[w], k) # Absent =>
                       enrRec[w]["property_features"][k] = FieldOfEvent(enrEvent[w], k)
                /\ ({"address", "property_info"} \cap DOMAIN enrEvent[w] = {}) =>
                       enrRec[w]["property_features"][k] = Absent

---------------------------------------------------------------------------
(* The identity the feature enricher requires *)

\* invocation w ended in the ValueError of the identity check
ValidationFailed(w) == enrPc[w] = "idle" /\ enrSaw[w] = "invalid"

NoIdentityIn(customer_data) ==
    "email" \notin DOMAIN customer_data /\ "id" \notin DOMAIN customer_data

\* C35: enrich_customer_features raises its validation error exactly for an
\* event with neither email nor id, and the handler then answers 500.
C35_FailsOnlyWithoutIdentity ==
    \A w \in EnrWorkers :
        /\ ValidationFailed(w) => /\ NoIdentityIn(enrEvent[w])
                                  /\ enrResponse[w] = 500
        /\ enrPc[w] = "write" => ~NoIdentityIn(enrEvent[w])

\* the parts that hold: an event without email and id raises, the answer to a
\* validation error is 500, and the step leaves the store as it was
ValidationErrorAnswered ==
    \A w \in EnrWorkers :
        /\ ValidationFailed(w) => enrResponse[w] = 500
        /\ enrPc[w] = "write" => "email" \in DOMAIN enrEvent[w]

ValidationLeavesStore ==
    [][\A w \in EnrWorkers :
          (ValidationFailed(w)' /\ enrEvent'[w] # enrEvent[w]) =>
              featureStore' = featureStore]_vars

---------------------------------------------------------------------------
(* process_message next to the stores it reads: the Agent Registry and the *)
(* customer feature store                                                  *)

\* faulty variant: the read takes the item out of the table
GetItemConsumes(table) == NoItem

\* features_table.get_item in get_customer_features: the table after the call
AfterGetItem(table) == table

\* the registry as registrations left it: empty, or one production record
RegistryContents ==
    {{}} \cup {{AgentRecord(c, 1)} :
                 c \in {a \in AgentConfigs : /\ ValidateAgentConfig(a)
                                             /\ Get(a, "status", "draft") = "production"}}

\* the feature store as the enricher left it: no item, or the customer's
FeatureContents ==
    {NoItem} \cup {r \in StoredRecords : r["satisfaction_avg"] = 440
                                         /\ r["service_count"] = 6}

InitCore ==
    /\ OrchestratorStart
    /\ judgeImpl = "patched"
    /\ batch = <<[first_name |-> "Ann", email |-> "a@b.com", id |-> "c1"]>>
    /\ registry \in RegistryContents
    /\ regPc = [w \in RegWorkers |-> "idle"]
    /\ regRec = [w \in RegWorkers |-> NoAgentRecord]
    /\ regResponse = [w \in RegWorkers |-> NoResponse]
    /\ regClock = 1
    /\ regCalls = 0
    /\ paramCache = {}
    /\ agentResult = Raise("none")
    /\ agentObs = NoAgentObs
    /\ featureStore \in FeatureContents
    /\ enrPc = [w \in EnrWorkers |-> "idle"]
    /\ enrEvent = [w \in EnrWorkers |-> NoEvent]
    /\ enrSaw = [w \in EnrWorkers |-> "none"]
    /\ enrRec = [w \in EnrWorkers |-> NoItem]
    /\ enrResponse = [w \in EnrWorkers |-> 0]
    /\ enrClock = 0
    /\ enrCalls = 0
    /\ enrClean = FALSE
    /\ enrSeed = 0
    /\ enrN = 0
    /\ enrSum = 0
    /\ enrObserved = TallyStopped
    /\ WebhookAtRest

\* process_message up to the loop, with its reads made: the two table-name
\* parameters, get_active_agent on the registry, the brand guidelines, and
\* get_customer_features, whose failure is logged and gives no features
ConfigureReading ==
    /\ pc = "config"
    /\ \E paramsOk \in BOOLEAN, guidelinesOk \in BOOLEAN, answers \in AgentAnswers :
         IF ~paramsOk
           THEN /\ pc' = "raised" /\ raisedBy' = "config"
                /\ UNCHANGED <<registry, paramCache, agentResult, agentObs, featureStore>>
           ELSE LET r == GetActiveAgent("upsell-generator", registry, paramCache, answers)
                IN  /\ registry' = registry
                    /\ agentResult' = [exc |-> r.exc, val |-> r.val]
                    /\ paramCache' = r.cache
                    /\ agentObs' = [called     |-> TRUE,
                                    agent_id   |-> "upsell-generator",
                                    cached     |-> paramCache,
                                    answers    |-> answers,
                                    production |-> {q \in registry :
                                                      q["status"] = "production"}]
                    /\ IF r.exc # "none" \/ ~guidelinesOk
                         THEN /\ pc' = "raised" /\ raisedBy' = "config"
                              /\ featureStore' = featureStore
                         ELSE /\ pc' = IF LoopContinues(0, FALSE) THEN "generate"
                                                                   ELSE "record"
                              /\ raisedBy' = raisedBy
                              /\ featureStore' = AfterGetItem(featureStore)
    /\ UNCHANGED <<handlerVars, decisionStore, retry_count, approved, final_email_content,
                   final_judgment, generation_result, previous_feedback, result, message_id,
                   genCalls, judgeCalls, putCalls, putFailures, metricCalls, genLog,
                   verdictLog, lastResponse>>
    /\ UNCHANGED <<regPc, regRec, regResponse, regClock, regCalls, enrPc, enrEvent, enrSaw,
                   enrRec, enrResponse, enrClock, enrCalls, enrClean, enrSeed, enrN, enrSum,
                   enrObserved, webhookVars>>

NextCore ==
    \/ ProcessMessageCall
    \/ ConfigureReading
    \/ Generate
    \/ Judge
    \/ Record
    \/ PublishAndReturn
    \/ Collect
    \/ Finish

SpecCore == InitCore /\ [][NextCore]_vars

\* C36: process_message only reads the Agent Registry and the customer
\* feature store: no step of it changes either, and the one change it makes to
\* a store is the single put of its record into the messages table.
C36_StoresOnlyRead ==
    /\ [](putCalls <= 1)
    /\ [][/\ registry' = registry
          /\ featureStore' = featureStore
          /\ StoreChanges => /\ putCalls' = putCalls + 1
                             /\ Len(decisionStore') = Len(decisionStore) + 1]_vars

C36_Witness ==
    /\ pc = "done" /\ putCalls = 1
    /\ registry # {} /\ featureStore # NoItem
    /\ agentObs.called
    /\ agentResult.exc = "none" /\ agentResult.val.version # "legacy"
    /\ Len(decisionStore) = 1

---------------------------------------------------------------------------
(* The orchestrator's handler over a batch *)

\* the records process_message was called for and has left
Attempted == Len(results) + Len(errors)

\* C37: the handler calls process_message for every record of the batch, also
\* after a record failed; it raises iff at least one record failed, and
\* otherwise returns 200 with as many results as the batch has records.
C37_BatchOutcome ==
    /\ Attempted = idx - 1
    /\ pc # "idle" => idx <= Len(batch)
    /\ hpc # "loop" =>
         /\ Attempted = Len(batch)
         /\ \A i \in 1..Len(errors) : errors[i].record \in 1..Len(batch)
         /\ hpc = "raised" <=> errors # <<>>
         /\ hpc = "returned" <=> Len(results) = Len(batch)

C37_Witness ==
    /\ hpc = "raised"
    /\ Len(batch) = 2
    /\ Len(errors) = 1 /\ errors[1].record = 1
    /\ Len(results) = 1
    /\ Len(decisionStore) = 1

---------------------------------------------------------------------------
(* The judge's verdict and the metrics sink *)

\* the latest judge call got an answer that parses to an object approving the
\* draft
ModelSaidApproved ==
    /\ judgeImpl = "real"
    /\ lastResponse.kind = "text" /\ lastResponse.json = "object"
    /\ Get(lastResponse.obj, "approved", FALSE)

\* C38: the verdict call_bedrock_judge returns follows from the model's
\* answer alone: an answer that parses to an object with approved = true
\* gives a verdict with approved = true and the model's score, also when the
\* judge metrics cannot be published.
C38_VerdictFromAnswerAlone ==
    ModelSaidApproved =>
        /\ final_judgment["approved"] = TRUE
        /\ final_judgment["score"] = Get(lastResponse.obj, "score", 0)

\* the part that holds: with the metrics published, the verdict is the answer's
VerdictWhenMetricsPublished ==
    (ModelSaidApproved /\ lastResponse.metrics = "ok") =>
        /\ final_judgment["approved"] = TRUE
        /\ final_judgment["score"] = Get(lastResponse.obj, "score", 0)

---------------------------------------------------------------------------
(* Re-registration of an agent version *)

\* the production record created last, as a set (empty without one)
NewestProduction(table) ==
    LET production == {r \in table : r["status"] = "production"}
    IN  {r \in production : \A q \in production : q["createdAt"] <= r["createdAt"]}

\* the step in which invocation w's update put succeeds
Updated(w) == regPc[w] = "update" /\ regPc'[w] = "idle"

KeysOf(rs) == {<<r["agentId"], r["version"]>> : r \in rs}

\* C39: registering an (agentId, version) that exists keeps the record's
\* createdAt, so an update of a record whose status stays as it was does not
\* change which production record is the one created last.
C39_CreatedAtPreserved ==
    [][\A w \in RegWorkers :
          Updated(w) =>
              \A r \in registry : \A q \in registry' :
                  SameKey(r, q) =>
                      /\ q["createdAt"] = r["createdAt"]
                      /\ q["status"] = r["status"] =>
                             KeysOf(NewestProduction(registry'))
                                 = KeysOf(NewestProduction(registry))
      ]_vars

\* the part that holds, for registrations made one after the other: a
\* registration stamps updatedAt no earlier than before and leaves the other
\* records of the table as they were
UpdateTouchesOneKey ==
    [][\A r \in registry :
          \/ r \in registry'
          \/ \E q \in registry' : /\ SameKey(r, q)
                                  /\ q["updatedAt"] >= r["updatedAt"]
                                  /\ \A o \in registry : ~SameKey(o, r) => o \in registry'
      ]_vars

====
